---- MODULE Spec2Model ----
(***************************************************************************)
(* A model of the test anti-pattern detector (test_antipattern_detector.py) *)
(* of sto-tools-keybind-manager.  Text is modelled character by character: *)
(* a Python str is a TLA+ string, indexed with SubSeq; every regular        *)
(* expression of the source is transcribed as a syntax tree and run by the *)
(* backtracking matcher below, which finds the match Python's re module     *)
(* finds.                                                                    *)
(*                                                                           *)
(* The lexer of TLA+ rejects the backquote character inside a string, so    *)
(* the character "~" stands for the JavaScript backquote throughout; no     *)
(* modelled text uses "~" for anything else.                                *)
(***************************************************************************)
EXTENDS Integers, Sequences, FiniteSets, TLC

\* The state of a run of main(); the operators below are the functions of
\* the source, and the actions at the end of the module are its steps.
VARIABLES
  pc,               \* where main() is
  directory,        \* the directory given on the command line
  registry_file,    \* the file given as --false-positives
  line_tolerance,   \* detector.line_tolerance
  false_positives,  \* detector.false_positives
  file_index,       \* the position of scan_directory in the walk
  lines,            \* lines of detect_patterns_in_file
  line_index,       \* line_index of detect_patterns_in_file
  detections,       \* detections of detect_patterns_in_file
  all_detections,   \* all_detections of scan_directory
  report,           \* what print_detections printed
  traceback,        \* whether the run ended with an uncaught exception
  exit_status,      \* the exit status of the process, None while it runs
  line,             \* strip_comments alone: its argument
  stripped,         \* strip_comments alone: its result
  i18n_dir,         \* check_duplicate_i18n_keys.py: i18n_dir of check_duplicates
  case_sensitive,   \* case_sensitive of check_duplicates
  en_files,         \* the en.json of each directory
  return_code,      \* what check_duplicates returned, None before it has
  reported,         \* the duplicate keys it printed
  transaction,      \* update_translations.py: the transaction main reads
  en_reference,     \* src/i18n/en.json as update_translations finds it
  lang_files,       \* the <lang>.json of src/i18n
  saved,            \* the languages whose file save_json has written
  lang_index        \* the position of main in  for lang, updates in ...

\* the state of a run of check_duplicates
i18n_vars == <<i18n_dir, case_sensitive, en_files, return_code, reported>>

\* the state of a run of update_translations
update_vars == <<transaction, en_reference, lang_files, saved, lang_index>>

vars ==
  <<pc, directory, registry_file, line_tolerance, false_positives, file_index,
    lines, line_index, detections, all_detections, report, traceback,
    exit_status, line, stripped, i18n_dir, case_sensitive, en_files,
    return_code, reported, transaction, en_reference, lang_files, saved,
    lang_index>>

(***************************************************************************)
(* Characters and strings                                                   *)
(***************************************************************************)
LowerLetters ==
  {"a", "b", "c", "d", "e", "f", "g", "h", "i", "j", "k", "l", "m",
   "n", "o", "p", "q", "r", "s", "t", "u", "v", "w", "x", "y", "z"}

UpperLetters ==
  {"A", "B", "C", "D", "E", "F", "G", "H", "I", "J", "K", "L", "M",
   "N", "O", "P", "Q", "R", "S", "T", "U", "V", "W", "X", "Y", "Z"}

DigitChars == {"0", "1", "2", "3", "4", "5", "6", "7", "8", "9"}

\* \w of Python's re, on ASCII text
WordChars == LowerLetters \cup UpperLetters \cup DigitChars \cup {"_"}

\* \s of Python's re, and the characters str.strip() removes
SpaceChars == {" ", "\t", "\n", "\r", "\f"}

LowerOf ==
  [c \in UpperLetters |->
     CASE c = "A" -> "a" [] c = "B" -> "b" [] c = "C" -> "c" [] c = "D" -> "d"
       [] c = "E" -> "e" [] c = "F" -> "f" [] c = "G" -> "g" [] c = "H" -> "h"
       [] c = "I" -> "i" [] c = "J" -> "j" [] c = "K" -> "k" [] c = "L" -> "l"
       [] c = "M" -> "m" [] c = "N" -> "n" [] c = "O" -> "o" [] c = "P" -> "p"
       [] c = "Q" -> "q" [] c = "R" -> "r" [] c = "S" -> "s" [] c = "T" -> "t"
       [] c = "U" -> "u" [] c = "V" -> "v" [] c = "W" -> "w" [] c = "X" -> "x"
       [] c = "Y" -> "y" [] c = "Z" -> "z"]

LowerChar(c) == IF c \in UpperLetters THEN LowerOf[c] ELSE c

CharAt(s, i) == IF 1 <= i /\ i <= Len(s) THEN SubSeq(s, i, i) ELSE ""

\* str.lower() on the characters lo..hi of s (the text is halved so that
\* the evaluation depth stays logarithmic in its length)
RECURSIVE LowerRange(_, _, _)
LowerRange(s, lo, hi) ==
  IF lo > hi THEN ""
  ELSE IF lo = hi THEN LowerChar(SubSeq(s, lo, lo))
  ELSE LET mid == (lo + hi) \div 2
       IN  LowerRange(s, lo, mid) \o LowerRange(s, mid + 1, hi)

Lower(s) == LowerRange(s, 1, Len(s))

\* the Python test "a in b" on two strings
Contains(b, a) ==
  \E i \in 1..(Len(b) - Len(a) + 1) : SubSeq(b, i, i + Len(a) - 1) = a

\* str.endswith
EndsWith(b, a) ==
  Len(a) <= Len(b) /\ SubSeq(b, Len(b) - Len(a) + 1, Len(b)) = a

\* str.strip()
Strip(s) ==
  LET kept == {i \in 1..Len(s) : SubSeq(s, i, i) \notin SpaceChars}
  IN  IF kept = {} THEN ""
      ELSE SubSeq(s, CHOOSE i \in kept : \A j \in kept : i <= j,
                     CHOOSE i \in kept : \A j \in kept : i >= j)

\* str.count of a one-character string, on the first n characters
CountChar(s, c, n) == Cardinality({i \in 1..n : SubSeq(s, i, i) = c})

(***************************************************************************)
(* Regular expressions: syntax trees and the backtracking matcher           *)
(***************************************************************************)
Lit(s) == <<"lit", s>>            \* a literal text
In(S) == <<"in", S>>              \* [...]  one character of S
NotIn(S) == <<"notin", S>>        \* [^...] one character not in S
Dot == <<"notin", {"\n"}>>        \* .  (without DOTALL)
Star(c) == <<"star", c>>          \* c*  for a one-character expression c
Plus(c) == <<"plus", c>>          \* c+  for a one-character expression c
AtLeast(c, n) == <<"atleast", c, n>>  \* c{n,}
Opt(r) == <<"opt", r>>            \* r?
Cat(rs) == <<"cat", rs>>          \* r1 r2 ... rn
Alt(a, b) == <<"alt", a, b>>      \* a|b
Bol == <<"bol">>                  \* ^  (without MULTILINE)
Eol == <<"eol">>                  \* $  (without MULTILINE)
WordB == <<"wordb">>              \* \b

\* whether the one-character expression c accepts the character ch
Accepts(c, ch) ==
  /\ ch # ""
  /\ IF c[1] = "in" THEN ch \in c[2] ELSE ch \notin c[2]

\* the first position in lo..hi whose character c does not accept, or
\* hi + 1 when it accepts them all
RECURSIVE RunEnd(_, _, _, _)
RunEnd(c, s, lo, hi) ==
  IF lo > hi THEN lo
  ELSE IF lo = hi THEN (IF Accepts(c, CharAt(s, lo)) THEN lo + 1 ELSE lo)
  ELSE LET mid == (lo + hi) \div 2
           left == RunEnd(c, s, lo, mid)
       IN  IF left <= mid THEN left ELSE RunEnd(c, s, mid + 1, hi)

\* the number of consecutive characters from position i that c accepts
RunLen(c, s, i) == RunEnd(c, s, i, Len(s)) - i

IsWordAt(s, i) == CharAt(s, i) \in WordChars

Mark == <<"mark">>                \* the start or the end of a group ( )
Group(r) == Cat(<<Mark, r, Mark>>)

NoMatch == <<>>

\* Run(rs, k, s, i): the backtracking matcher of Python's re on the
\* expressions rs[k], rs[k+1], ... matched one after the other from
\* position i of s.  The result is NoMatch, or the first match the matcher
\* reaches: <<e, m1, m2, ...>> with e the position just after the match and
\* m1, m2, ... the positions of the marks passed.  A repetition is greedy:
\* the longest run is tried first and given back one character at a time.
RECURSIVE Run(_, _, _, _)

\* the fewest characters a repetition takes
AtLeastOf(r) == IF r[1] = "star" THEN 0 ELSE IF r[1] = "plus" THEN 1 ELSE r[3]

\* the rest of the match from the last of the positions J at which the
\* expressions after rs[k] match (the longest repetition that lets them)
LastOrNoMatch(rs, k, s, J) ==
  IF J = {} THEN NoMatch
  ELSE Run(rs, k + 1, s, CHOOSE j \in J : \A m \in J : j >= m)

Run(rs, k, s, i) ==
  IF k > Len(rs) THEN <<i>>
  ELSE
    LET r == rs[k]
        rest == SubSeq(rs, k + 1, Len(rs))
    IN  CASE r[1] = "lit" ->
               IF i + Len(r[2]) - 1 <= Len(s) /\ SubSeq(s, i, i + Len(r[2]) - 1) = r[2]
               THEN Run(rs, k + 1, s, i + Len(r[2])) ELSE NoMatch
          [] r[1] \in {"in", "notin"} ->
               IF Accepts(r, CharAt(s, i)) THEN Run(rs, k + 1, s, i + 1) ELSE NoMatch
          [] r[1] \in {"star", "plus", "atleast"} ->
               LastOrNoMatch(rs, k, s, {j \in (i + AtLeastOf(r))..(i + RunLen(r[2], s, i)) :
                                          Run(rs, k + 1, s, j) # NoMatch})
          [] r[1] = "opt" ->
               LET with == Run(<<r[2]>> \o rest, 1, s, i)
               IN  IF with # NoMatch THEN with ELSE Run(rs, k + 1, s, i)
          [] r[1] = "cat" -> Run(r[2] \o rest, 1, s, i)
          [] r[1] = "alt" ->
               LET first == Run(<<r[2]>> \o rest, 1, s, i)
               IN  IF first # NoMatch THEN first ELSE Run(<<r[3]>> \o rest, 1, s, i)
          [] r[1] = "bol" -> IF i = 1 THEN Run(rs, k + 1, s, i) ELSE NoMatch
          [] r[1] = "eol" ->
               IF i = Len(s) + 1 \/ (i = Len(s) /\ CharAt(s, i) = "\n")
               THEN Run(rs, k + 1, s, i) ELSE NoMatch
          [] r[1] = "wordb" ->
               IF IsWordAt(s, i - 1) # IsWordAt(s, i)
               THEN Run(rs, k + 1, s, i) ELSE NoMatch
          [] r[1] = "mark" ->
               LET m == Run(rs, k + 1, s, i)
               IN  IF m = NoMatch THEN NoMatch ELSE <<m[1], i>> \o Tail(m)

\* the match of r that starts at position i of s
MatchAt(r, s, i) == Run(<<r>>, 1, s, i)

\* re.match(r, s): r matches at the start of s
ReMatch(r, s) == MatchAt(r, s, 1) # NoMatch

\* re.search(r, s): r matches somewhere in s
ReSearch(r, s) == \E i \in 1..(Len(s) + 1) : MatchAt(r, s, i) # NoMatch

\* the start of the leftmost match of r in s among the positions lo..hi
\* (0 when there is none)
RECURSIVE FirstStartIn(_, _, _, _)
FirstStartIn(r, s, lo, hi) ==
  IF lo > hi THEN 0
  ELSE IF lo = hi THEN (IF MatchAt(r, s, lo) # NoMatch THEN lo ELSE 0)
  ELSE LET mid == (lo + hi) \div 2
           left == FirstStartIn(r, s, lo, mid)
       IN  IF left # 0 THEN left ELSE FirstStartIn(r, s, mid + 1, hi)

FirstStart(r, s, from) == FirstStartIn(r, s, from, Len(s) + 1)

\* the expression r with every literal and character set lower-cased:
\* with the text lower-cased too, this is matching under re.IGNORECASE
RECURSIVE LowerRe(_)
LowerRe(r) ==
  CASE r[1] = "lit" -> <<"lit", Lower(r[2])>>
    [] r[1] \in {"in", "notin"} -> <<r[1], {LowerChar(c) : c \in r[2]}>>
    [] r[1] \in {"star", "plus", "opt"} -> <<r[1], LowerRe(r[2])>>
    [] r[1] = "atleast" -> <<r[1], LowerRe(r[2]), r[3]>>
    [] r[1] = "cat" -> <<"cat", [k \in 1..Len(r[2]) |-> LowerRe(r[2][k])]>>
    [] r[1] = "alt" -> <<"alt", LowerRe(r[2]), LowerRe(r[3])>>
    [] r[1] \in {"bol", "eol", "wordb", "mark"} -> r

\* re.search(r, s, re.IGNORECASE)
ReSearchI(r, s) == ReSearch(LowerRe(r), Lower(s))

\* the character classes the source's expressions use
Sp == In(SpaceChars)              \* \s
W == In(WordChars)                \* \w
D == In(DigitChars)               \* \d
NotParen == NotIn({")"})          \* [^)]
NotBrace == NotIn({"}"})          \* [^}]
QuoteSD == In({"'", "\""})        \* ['"]
NotQuoteSD == NotIn({"'", "\""})  \* [^'"]
(***************************************************************************)
(* The rule registry: TestAntiPatternDetector.__init__, anti_patterns      *)
(***************************************************************************)
NotSemi == NotIn({";"})           \* [^;]
NotOpenBrace == NotIn({"{"})      \* [^{]

\* the 32 single-line rules, in the order of the source; each pattern is
\* searched in the comment-stripped line under re.IGNORECASE
anti_patterns ==
  <<
    \* rule 1, source line 62
    [name |-> "Conditional Test Execution",
     pattern |-> Cat(<<Bol, Star(Sp), Lit("if"), Star(Sp), Lit("("), Star(NotParen), Lit(")"), Star(Sp), Opt(Lit("{")), Star(Sp), Eol>>),
     severity |-> "high"],
    \* rule 2, source line 70
    [name |-> "Try-Catch Fallback",
     pattern |-> Cat(<<Bol, Star(Sp), Lit("}"), Star(Sp), Lit("catch"), Star(Sp), Lit("("), Star(NotParen), Lit(")"), Star(Sp), Lit("{"), Star(Sp), Eol>>),
     severity |-> "high"],
    \* rule 3, source line 78
    [name |-> "Generic toBeTruthy Fallback",
     pattern |-> Lit("expect(true).toBeTruthy()"),
     severity |-> "high"],
    \* rule 4, source line 86
    [name |-> "Function Existence Test",
     pattern |-> Cat(<<Lit("expect(typeof"), Plus(Sp), Plus(NotParen), Lit(").toBe("), QuoteSD, Lit("function"), QuoteSD, Lit(")")>>),
     severity |-> "medium"],
    \* rule 5, source line 94
    [name |-> "Weak toBeDefined Assertion",
     pattern |-> Cat(<<Lit("expect("), Plus(NotParen), Lit(").toBeDefined()")>>),
     severity |-> "medium"],
    \* rule 6, source line 102
    [name |-> "Weak not.toThrow Pattern",
     pattern |-> Cat(<<Lit("expect("), Plus(NotParen), Lit(").not.toThrow()")>>),
     severity |-> "medium"],
    \* rule 7, source line 110
    [name |-> "Suspicious Mock Usage",
     pattern |-> Alt(Lit(".mockImplementation("), Alt(Lit(".mockReturnValue("), Lit("jest.fn("))),
     severity |-> "low"],
    \* rule 8, source line 118
    [name |-> "Silent Failure Pattern",
     pattern |-> Cat(<<Lit("expect("), Star(NotParen), Lit(").toBeFalsy()"), Star(Dot), Lit("//"), Star(Dot), Lit("fail")>>),
     severity |-> "medium"],
    \* rule 9, source line 126
    [name |-> "Conditional Result Check",
     pattern |-> Cat(<<Lit("if"), Star(Sp), Lit("("), Star(Sp), Lit("result"), Star(Sp), Lit(")")>>),
     severity |-> "high"],
    \* rule 10, source line 134
    [name |-> "Conditional Component Check",
     pattern |-> Cat(<<Lit("if"), Star(Sp), Lit("("), Star(Sp), Plus(W), Lit("Manager"), Star(Sp), Lit(")")>>),
     severity |-> "high"],
    \* rule 11, source line 142
    [name |-> "Conditional Element Check",
     pattern |-> Cat(<<Lit("if"), Star(Sp), Lit("("), Star(Sp), Lit("element"), Star(Sp), Lit(")")>>),
     severity |-> "high"],
    \* rule 12, source line 150
    [name |-> "Empty Catch Block",
     pattern |-> Cat(<<Lit("}"), Star(Sp), Lit("catch"), Star(Sp), Lit("("), Star(NotParen), Lit(")"), Star(Sp), Lit("{"), Star(Sp), Lit("}")>>),
     severity |-> "high"],
    \* rule 13, source line 158
    [name |-> "Weak Object Type Check",
     pattern |-> Cat(<<Lit("expect(typeof"), Plus(Sp), Plus(NotParen), Lit(").toBe("), QuoteSD, Lit("object"), QuoteSD, Lit(")")>>),
     severity |-> "low"],
    \* rule 14, source line 166
    [name |-> "Generic expect.anything() Overuse",
     pattern |-> Lit("expect.anything()"),
     severity |-> "low"],
    \* rule 15, source line 174
    [name |-> "Conditional Test Description",
     pattern |-> Cat(<<Lit("it("), Star(Dot), Lit("?"), Star(Sp), QuoteSD, Star(NotQuoteSD), QuoteSD, Star(Dot), Lit(":")>>),
     severity |-> "medium"],
    \* rule 16, source line 184
    [name |-> "Mock-Only Testing",
     pattern |-> Cat(<<Lit("const"), Plus(Sp), Plus(W), Star(Sp), Lit("="), Star(Sp), Lit("{"), Star(Sp), Star(NotBrace), Lit(":"), Star(Sp), Lit("jest.fn()")>>),
     severity |-> "high"],
    \* rule 17, source line 192
    [name |-> "Mock Return Value Testing",
     pattern |-> Cat(<<Lit("mockFunction.mockReturnValue("), Plus(NotParen), Lit(");"), Star(Sp), Lit("expect(mockFunction())")>>),
     severity |-> "high"],
    \* rule 18, source line 200
    [name |-> "Excessive Core Mocking",
     pattern |-> Cat(<<Lit("window."), Plus(W), Star(Sp), Lit("="), Star(Sp), Lit("{"), Star(NotBrace), Lit("};"), Star(Sp), Lit("//"), Star(Dot), Lit("mock")>>),
     severity |-> "medium"],
    \* rule 19, source line 208
    [name |-> "Mock Assertion Without Behavior",
     pattern |-> Cat(<<Lit("expect("), Plus(W), Lit(".mock.calls).toHaveLength("), Plus(D), Lit(")"), Eol>>),
     severity |-> "medium"],
    \* rule 20, source line 216
    [name |-> "Mock Implementation Testing",
     pattern |-> Cat(<<Lit("expect("), Plus(W), Lit(").toHaveBeenCalledWith("), Star(NotParen), Lit(");"), Star(Sp), Lit("//"), Star(Dot), Lit("only")>>),
     severity |-> "medium"],
    \* rule 21, source line 226
    [name |-> "Fallback Assertion Masking",
     pattern |-> Cat(<<Lit("}"), Star(Sp), Lit("catch"), Star(Sp), Lit("("), Star(NotParen), Lit(")"), Star(Sp), Lit("{"), Star(Sp), Lit("expect(true).toBe(true)")>>),
     severity |-> "high"],
    \* rule 22, source line 234
    [name |-> "Conditional Assertion Skip",
     pattern |-> Cat(<<Lit("if"), Star(Sp), Lit("("), Star(NotParen), Lit(")"), Star(Sp), Lit("{"), Star(Sp), Lit("expect("), Star(NotParen), Lit(");"), Star(Sp), Lit("}"), Star(Sp), Lit("else"), Star(Sp), Lit("{"), Star(Sp), Lit("expect(true)")>>),
     severity |-> "high"],
    \* rule 23, source line 242
    [name |-> "Weak Fallback Expectation",
     pattern |-> Cat(<<Lit("}"), Star(Sp), Lit("catch"), Star(Sp), Lit("("), Star(NotParen), Lit(")"), Star(Sp), Lit("{"), Star(Sp), Lit("expect("), Star(NotParen), Lit(").toBeDefined()")>>),
     severity |-> "medium"],
    \* rule 24, source line 250
    [name |-> "Null Fallback Pattern",
     pattern |-> Cat(<<Lit("expect("), Star(NotParen), Lit("||"), Star(Sp), Lit("null).toBe(null)")>>),
     severity |-> "medium"],
    \* rule 25, source line 258
    [name |-> "Element Existence Fallback",
     pattern |-> Cat(<<Lit("const"), Plus(Sp), Plus(W), Star(Sp), Lit("="), Star(Sp), Lit("document."), Plus(W), Lit("("), Star(NotParen), Lit(")"), Star(Sp), Lit("||"), Star(Sp), Lit("{};")>>),
     severity |-> "high"],
    \* rule 26, source line 266
    [name |-> "Manager Creation Fallback",
     pattern |-> Cat(<<Lit("if"), Star(Sp), Lit("("), Star(Dot), Lit("window."), Plus(W), Star(Dot), Lit("undefined)"), Star(Sp), Lit("{"), Star(Sp), Lit("window."), Plus(W), Star(Sp), Lit("="), Star(Sp), Lit("{")>>),
     severity |-> "high"],
    \* rule 27, source line 274
    [name |-> "Silent Error Swallowing",
     pattern |-> Alt(Cat(<<Lit("}"), Star(Sp), Lit("catch"), Star(Sp), Lit("("), Star(NotParen), Lit(")"), Star(Sp), Lit("{"), Star(Sp), Lit("//"), Star(Dot), Lit("ignore")>>), Cat(<<Lit("//"), Star(Dot), Lit("silent")>>)),
     severity |-> "high"],
    \* rule 28, source line 282
    [name |-> "Weak Instanceof Fallback",
     pattern |-> Cat(<<Lit("expect("), Star(NotParen), Lit(").toBeInstanceOf(Object)")>>),
     severity |-> "low"],
    \* rule 29, source line 290
    [name |-> "Result Existence Without Validation",
     pattern |-> Cat(<<Lit("expect(result).toBeTruthy();"), Star(Sp), Lit("//"), Star(Dot), Lit("exists")>>),
     severity |-> "medium"],
    \* rule 30, source line 298
    [name |-> "Multiple Fallback Expectations",
     pattern |-> Alt(Cat(<<Lit("expect("), Star(NotParen), Lit("||")>>), Cat(<<Star(NotParen), Lit("??"), Star(Sp), Star(NotParen), Lit(").toBe")>>)),
     severity |-> "medium"],
    \* rule 31, source line 306
    [name |-> "DOM Creation Fallback",
     pattern |-> Cat(<<Lit("if"), Star(Sp), Lit("(!"), Star(NotParen), Lit("getElementById"), Star(NotParen), Lit(")"), Star(Sp), Lit("{"), Star(Sp), Lit("const"), Plus(Sp), Plus(W), Star(Sp), Lit("="), Star(Sp), Lit("document.createElement")>>),
     severity |-> "medium"],
    \* rule 32, source line 314
    [name |-> "Mock Module Loading Fallback",
     pattern |-> Cat(<<Lit("if"), Star(Sp), Lit("(typeof"), Plus(Sp), Lit("window."), Plus(W), Star(Dot), Lit("undefined)"), Star(Sp), Lit("{"), Star(Sp), Lit("throw"), Plus(Sp), Lit("new"), Plus(Sp), Lit("Error")>>),
     severity |-> "low"]
  >>
\* the 9 multi-line rules of detect_multiline_patterns, in the order of the
\* source; each pattern is searched in the whole text of the file
multiline_patterns ==
  <<
    \* mock_pattern, source line 961
    [name |-> "Mock-Heavy Test Without Validation",
     pattern |-> Cat(<<Lit("const"), Plus(Sp), Plus(W), Lit("Manager"), Star(Sp), Lit("="), Star(Sp), Lit("{"), Star(NotBrace), Lit("mock"), Star(NotBrace), Lit("};"), Star(Sp), Star(NotSemi), Lit(";"), Star(Sp), Lit("expect("), Star(NotParen), Lit(").toBeTruthy()")>>)],
    \* try_catch_mock_pattern, source line 974
    [name |-> "Try-Catch With Mock-Only Assertions",
     pattern |-> Cat(<<Lit("try"), Star(Sp), Lit("{"), Star(NotBrace), Lit("}"), Star(Sp), Lit("catch"), Star(NotBrace), Lit("{"), Star(Sp), Lit("expect("), Star(NotParen), Lit("mock"), Star(NotParen), Lit(").toBe")>>)],
    \* window_mock_pattern, source line 987
    [name |-> "Window Mock Without Integration Testing",
     pattern |-> Cat(<<Lit("window."), Plus(W), Star(Sp), Lit("="), Star(Sp), Lit("{"), Star(NotBrace), Lit("};"), Star(Sp), Star(NotSemi), Lit(";"), Star(Sp), Lit("expect(window."), Plus(W), Lit(").toBeDefined()")>>)],
    \* beforeeach_fallback_pattern, source line 1000
    [name |-> "BeforeEach Fallback Creation",
     pattern |-> Cat(<<Lit("beforeEach("), Star(NotOpenBrace), Lit("{"), Star(NotBrace), Lit("if"), Star(Sp), Lit("("), Star(NotParen), Lit("undefined"), Star(NotParen), Lit(")"), Star(NotBrace), Lit("document.createElement"), Star(NotBrace), Lit("}")>>)],
    \* conditional_mock_pattern, source line 1013
    [name |-> "Conditional Mock Execution With Trivial Fallback",
     pattern |-> Cat(<<Lit("if"), Star(Sp), Lit("("), Star(NotParen), Lit("window."), Plus(W), Star(NotParen), Lit(")"), Star(Sp), Lit("{"), Star(NotBrace), Lit("expect"), Star(NotBrace), Lit("}"), Star(Sp), Lit("else"), Star(Sp), Lit("{"), Star(NotBrace), Lit("expect(true)")>>)],
    \* fake_manager_pattern, source line 1026
    [name |-> "Fake Manager Creation In Integration Test",
     pattern |-> Cat(<<Lit("const"), Plus(Sp), Plus(W), Lit("Manager"), Star(Sp), Lit("="), Star(Sp), Lit("{"), Star(NotBrace), Lit(":"), Star(Sp), Lit("()"), Star(Sp), Lit("=>"), Star(Sp), Lit("true"), Star(NotBrace), Lit("};"), Star(Sp), Star(NotSemi), Lit(";"), Star(Sp), Lit("expect("), Star(NotParen), Lit("Manager"), Star(NotParen), Lit(").toBeTruthy")>>)],
    \* dom_creation_pattern, source line 1039
    [name |-> "DOM Creation Avoiding Real DOM Testing",
     pattern |-> Cat(<<Lit("if"), Star(Sp), Lit("(!"), Star(NotParen), Lit("getElementById"), Star(NotParen), Lit(")"), Star(Sp), Lit("{"), Star(NotBrace), Lit("createElement"), Star(NotBrace), Lit("appendChild"), Star(NotBrace), Lit("}")>>)],
    \* catch_weak_pattern, source line 1052
    [name |-> "Catch Block With Weak Fallback Assertion",
     pattern |-> Cat(<<Lit("}"), Star(Sp), Lit("catch"), Star(Sp), Lit("("), Star(NotParen), Lit(")"), Star(Sp), Lit("{"), Star(NotBrace), Lit("expect("), Star(NotParen), Lit("||"), Star(NotParen), Lit(").toBe")>>)],
    \* all_operations_truthy_pattern, source line 1065
    [name |-> "All Operations With Only Truthy Check",
     pattern |-> Cat(<<Star(NotSemi), Lit("save"), Star(NotSemi), Star(Sp), Star(NotSemi), Lit("edit"), Star(NotSemi), Star(Sp), Star(NotSemi), Lit("delete"), Star(NotSemi), Star(Sp), Lit("expect("), Star(NotParen), Lit(").toBeTruthy()")>>)]
  >>

(***************************************************************************)
(* Searching, splitting and replacing, as Python's re and str do them      *)
(***************************************************************************)
\* Optional[str]: None, or a string
None == <<>>
Some(s) == <<s>>

Max(a, b) == IF a >= b THEN a ELSE b
Min(a, b) == IF a <= b THEN a ELSE b

\* range(lo, hi) of Python
Range(lo, hi) == lo..(hi - 1)

\* the spans <<start, end>> (end exclusive) of re.finditer(r, s): leftmost
\* first, each with the end the backtracking matcher reaches first, the
\* next search starting where the last match ended
RECURSIVE FindIter(_, _, _)

\* the match that starts at i and ends before e, and the matches after it
FindIterAfter(r, s, i, e) == <<(<<i, e>>)>> \o FindIter(r, s, Max(e, i + 1))

\* the matches from the leftmost one, which starts at i (0: there is none)
FindIterAt(r, s, i) ==
  IF i = 0 THEN <<>> ELSE FindIterAfter(r, s, i, MatchAt(r, s, i)[1])

FindIter(r, s, from) == FindIterAt(r, s, FirstStart(r, s, from))

\* set(re.findall(r, s)) for an expression without groups
TextsOf(s, spans) == {SubSeq(s, spans[k][1], spans[k][2] - 1) : k \in 1..Len(spans)}

FindAllSet(r, s) == TextsOf(s, FindIter(r, s, 1))

\* re.sub(r, repl, s) for an expression that matches no empty text
RECURSIVE SubFrom(_, _, _, _, _)
SubFrom(spans, k, repl, s, from) ==
  IF k > Len(spans) THEN SubSeq(s, from, Len(s))
  ELSE SubSeq(s, from, spans[k][1] - 1) \o repl
         \o SubFrom(spans, k + 1, repl, s, spans[k][2])

ReSub(r, repl, s) == SubFrom(FindIter(r, s, 1), 1, repl, s, 1)

\* str.replace(old, new): the occurrences of old from left to right,
\* without overlap, in one pass
StrReplace(s, old, new) == ReSub(Lit(old), new, s)

\* str.split(sep) for a one-character separator
RECURSIVE SplitFrom(_, _, _, _)
SplitFrom(s, sep, from, i) ==
  IF i > Len(s) THEN <<SubSeq(s, from, Len(s))>>
  ELSE IF SubSeq(s, i, i) = sep
       THEN <<SubSeq(s, from, i - 1)>> \o SplitFrom(s, sep, i + 1, i + 1)
       ELSE SplitFrom(s, sep, from, i + 1)

Split(s, sep) == SplitFrom(s, sep, 1, 1)

SeqHas(q, x) == \E k \in 1..Len(q) : q[k] = x

\* m.group(1) of m = re.search(r, s) for an expression r with one
\* Group, as Some(text), or None when r matches nowhere
GroupOf(s, m) == Some(SubSeq(s, m[2], m[3] - 1))

SearchGroupAt(r, s, i) == IF i = 0 THEN None ELSE GroupOf(s, MatchAt(r, s, i))

SearchGroup(r, s) == SearchGroupAt(r, s, FirstStart(r, s, 1))

(***************************************************************************)
(* strip_comments                                                           *)
(***************************************************************************)
QuoteChars == {"\"", "'", "~"}

\* the local variables of strip_comments before the loop; i is 1-based and
\* "" stands for the quote_char None.  in_single_comment is never set by
\* the source and stays False, so it is left out.
strip_start ==
  [i |-> 1, result |-> "", in_string |-> FALSE, in_multi_comment |-> FALSE,
   escape_next |-> FALSE, quote_char |-> "", broke |-> FALSE]

\* strip_step with the test for a line comment made before the tests for
\* string literals, so that it no longer asks whether the scanner is inside
\* a literal: the variant under which the property of C9 has to fail
strip_step_comment_first(l, st) ==
  LET char == SubSeq(l, st.i, st.i)
      nxt == CharAt(l, st.i + 1)
      kept == IF ~st.in_multi_comment THEN st.result \o char ELSE st.result
  IN  IF st.escape_next
        THEN [st EXCEPT !.result = kept, !.escape_next = FALSE, !.i = @ + 1]
      ELSE IF char = "\\"
        THEN [st EXCEPT !.result = kept, !.escape_next = TRUE, !.i = @ + 1]
      ELSE IF char = "/" /\ nxt = "/"
        THEN [st EXCEPT !.broke = TRUE]
      ELSE IF ~st.in_multi_comment /\ char \in QuoteChars /\ ~st.in_string
        THEN [st EXCEPT !.in_string = TRUE, !.quote_char = char,
                        !.result = @ \o char, !.i = @ + 1]
      ELSE IF ~st.in_multi_comment /\ st.in_string /\ char = st.quote_char
        THEN [st EXCEPT !.in_string = FALSE, !.quote_char = "",
                        !.result = @ \o char, !.i = @ + 1]
      ELSE IF ~st.in_string /\ char = "/" /\ nxt = "*"
        THEN [st EXCEPT !.in_multi_comment = TRUE, !.i = @ + 2]
      ELSE IF ~st.in_string /\ st.in_multi_comment /\ char = "*" /\ nxt = "/"
        THEN [st EXCEPT !.in_multi_comment = FALSE, !.i = @ + 2]
      ELSE [st EXCEPT !.result = kept, !.i = @ + 1]

\* one iteration of  while i < len(line)
strip_step(l, st) ==
  LET char == SubSeq(l, st.i, st.i)
      nxt == CharAt(l, st.i + 1)
      kept == IF ~st.in_multi_comment THEN st.result \o char ELSE st.result
  IN  IF st.escape_next
        THEN [st EXCEPT !.result = kept, !.escape_next = FALSE, !.i = @ + 1]
      ELSE IF char = "\\"
        THEN [st EXCEPT !.result = kept, !.escape_next = TRUE, !.i = @ + 1]
      ELSE IF ~st.in_multi_comment /\ char \in QuoteChars /\ ~st.in_string
        THEN [st EXCEPT !.in_string = TRUE, !.quote_char = char,
                        !.result = @ \o char, !.i = @ + 1]
      ELSE IF ~st.in_multi_comment /\ st.in_string /\ char = st.quote_char
        THEN [st EXCEPT !.in_string = FALSE, !.quote_char = "",
                        !.result = @ \o char, !.i = @ + 1]
      ELSE IF ~st.in_string /\ char = "/" /\ nxt = "/"
        THEN [st EXCEPT !.broke = TRUE]
      ELSE IF ~st.in_string /\ char = "/" /\ nxt = "*"
        THEN [st EXCEPT !.in_multi_comment = TRUE, !.i = @ + 2]
      ELSE IF ~st.in_string /\ st.in_multi_comment /\ char = "*" /\ nxt = "/"
        THEN [st EXCEPT !.in_multi_comment = FALSE, !.i = @ + 2]
      ELSE [st EXCEPT !.result = kept, !.i = @ + 1]

\* the local variables when the loop ends
RECURSIVE strip_loop(_, _)
strip_loop(l, st) ==
  IF st.i > Len(l) \/ st.broke THEN st
  ELSE strip_loop(l, strip_step(l, st))

\* every call starts outside a string and outside a comment, and returns
\* ''.join(result)
strip_comments(l) == strip_loop(l, strip_start).result

(***************************************************************************)
(* extract_function_name, fuzzy_match_function, normalize_path, paths_match *)
(***************************************************************************)
\* lines[i] for a 0-based index i, as the source indexes them
LineAt(file_lines, i) == file_lines[i + 1]

OpenLabel == Cat(<<Star(Sp), Lit("("), Star(Sp), QuoteSD>>)
SetupNames ==
  Alt(Lit("beforeAll"), Alt(Lit("beforeEach"), Alt(Lit("afterAll"), Lit("afterEach"))))

\* the name found on one (stripped) line: describe, it, test, then the
\* setup and teardown blocks
HeaderNameOf(describe_match, it_match, test_match, before_match) ==
  IF describe_match # None THEN describe_match
  ELSE IF it_match # None THEN it_match
  ELSE IF test_match # None THEN test_match
  ELSE IF before_match # None THEN Some(before_match[1] \o " setup")
  ELSE None

HeaderName(l) ==
  HeaderNameOf(
    SearchGroup(Cat(<<Lit("describe"), OpenLabel, Group(Plus(NotQuoteSD)), QuoteSD>>), l),
    SearchGroup(Cat(<<Lit("it"), OpenLabel, Group(Plus(NotQuoteSD)), QuoteSD>>), l),
    SearchGroup(Cat(<<Lit("test"), OpenLabel, Group(Plus(NotQuoteSD)), QuoteSD>>), l),
    SearchGroup(Cat(<<Group(SetupNames), Star(Sp), Lit("(")>>), l))

\* the loop  for i in range(line_index, max(-1, line_index - 20), -1)
RECURSIVE ExtractFrom(_, _, _)

\* found is the name on line i, None when the line holds none
ExtractFound(file_lines, i, stop, found) ==
  IF found # None THEN found ELSE ExtractFrom(file_lines, i - 1, stop)

ExtractFrom(file_lines, i, stop) ==
  IF i <= stop THEN None
  ELSE ExtractFound(file_lines, i, stop, HeaderName(Strip(LineAt(file_lines, i))))

\* extract_function_name that looks back to the first line of the file:
\* the variant under which the property of C28 has to fail
extract_function_name_unbounded(file_lines, index) ==
  IF index < 0 \/ index >= Len(file_lines) THEN None
  ELSE ExtractFrom(file_lines, index, -1)

extract_function_name(file_lines, index) ==
  IF index < 0 \/ index >= Len(file_lines) THEN None
  ELSE ExtractFrom(file_lines, index, Max(-1, index - 20))

WordSet(s) == FindAllSet(Plus(W), s)

\* word_overlap with the share taken of the words of the actual name: the
\* variant under which the property of C25 has to fail
word_overlap_of_actual(actual_words, expected_words) ==
  IF Cardinality(expected_words) > 0
  THEN 10 * Cardinality(actual_words \cap expected_words)
         >= 6 * Cardinality(actual_words)
  ELSE FALSE

\* actual_function is Optional[str]; expected_function is a string
\* the word overlap: len(actual_words & expected_words) / len(expected_words) >= 0.6
word_overlap(actual_words, expected_words) ==
  IF Cardinality(expected_words) > 0
  THEN 10 * Cardinality(actual_words \cap expected_words)
         >= 6 * Cardinality(expected_words)
  ELSE FALSE

\* al and el are actual.lower() and expected.lower()
fuzzy_match_lower(actual, expected_function, al, el) ==
  IF actual = expected_function THEN TRUE
  ELSE IF al = el THEN TRUE
  ELSE IF Contains(al, el) \/ Contains(el, al) THEN TRUE
  ELSE word_overlap(WordSet(al), WordSet(el))

fuzzy_match_function(actual_function, expected_function) ==
  IF actual_function = None \/ actual_function = Some("") \/ expected_function = ""
  THEN FALSE
  ELSE fuzzy_match_lower(actual_function[1], expected_function,
                         Lower(actual_function[1]), Lower(expected_function))

normalize_path(path) == StrReplace(StrReplace(path, "\\", "/"), "//", "/")

\* the last test of paths_match, on norm1.split('/') and norm2.split('/')
parts_match(parts1, parts2) ==
  LET file1 == parts1[Len(parts1)]
      file2 == parts2[Len(parts2)]
  IN  IF file1 = file2 /\ Len(file1) > 0
           /\ Len(parts1) >= 2 /\ Len(parts2) >= 2
           /\ (parts1[Len(parts1) - 1] = parts2[Len(parts2) - 1]
               \/ (SeqHas(parts1, "test") /\ SeqHas(parts2, "test")))
        THEN TRUE
      ELSE FALSE

\* norm1 and norm2 are the normalized paths
norms_match(norm1, norm2) ==
  IF norm1 = norm2 THEN TRUE
  ELSE IF EndsWith(norm1, norm2) \/ EndsWith(norm2, norm1) THEN TRUE
  ELSE parts_match(Split(norm1, "/"), Split(norm2, "/"))

paths_match(path1, path2) == norms_match(normalize_path(path1), normalize_path(path2))

(***************************************************************************)
(* is_false_positive                                                        *)
(***************************************************************************)
\* re.sub(r'\s+', ' ', text.strip().lower())
CleanCode(text) == ReSub(Plus(Sp), " ", Lower(Strip(text)))

\* the words the fallback ignores
CommonTestWords == {"expect", "tobe", "defined", "function", "window"}

\* set(re.findall(r'\b\w{3,}\b', text)) - {'expect', 'tobe', ...}
KeyWords(text) ==
  FindAllSet(Cat(<<WordB, AtLeast(W, 3), WordB>>), text) \ CommonTestWords

\* m.group(1) of re.search(r'typeof window\.(\w+)', text)
TypeofWindowTarget(text) == SearchGroup(Cat(<<Lit("typeof window."), Group(Plus(W))>>), text)

\* m.group(1) of re.search(r'expect\(([^)]+)\)\.toBeDefined', text)
ToBeDefinedTarget(text) ==
  SearchGroup(Cat(<<Lit("expect("), Group(Plus(NotParen)), Lit(").toBeDefined")>>), text)

LastOf(q) == q[Len(q)]

\* fp_match and det_match and fp_match.group(1) == det_match.group(1)
targets_equal(fp_match, det_match) ==
  fp_match # None /\ det_match # None /\ fp_match = det_match

\* the special handling of is_false_positive for conditional patterns; the
\* two texts are the cleaned snippet and the cleaned code line
conditional_matches(fp_pattern_name, fp_code_clean, detection_code_clean) ==
  /\ fp_pattern_name = "Conditional Test Execution"
  /\ Contains(fp_code_clean, "typeof window.")
  /\ Contains(fp_code_clean, "undefined")
  /\ Contains(detection_code_clean, "typeof window.")
  /\ Contains(detection_code_clean, "undefined")
  /\ targets_equal(TypeofWindowTarget(fp_code_clean),
                   TypeofWindowTarget(detection_code_clean))

\* fp_var in det_var or det_var in fp_var or the last components are equal
vars_match(fp_var, det_var) ==
  \/ Contains(det_var, fp_var)
  \/ Contains(fp_var, det_var)
  \/ LastOf(Split(fp_var, ".")) = LastOf(Split(det_var, "."))

\* fp_target and det_target and the comparison of the two variables
to_be_defined_matches(fp_target, det_target) ==
  /\ fp_target # None
  /\ det_target # None
  /\ vars_match(Strip(fp_target[1]), Strip(det_target[1]))

\* the if / elif chain that follows the special handling; conditional is
\* the value of code_matches the special handling left
chain_matches(conditional, fp_code_clean, detection_code_clean) ==
  IF ~conditional /\ (Contains(detection_code_clean, fp_code_clean)
                      \/ Contains(fp_code_clean, detection_code_clean))
    THEN TRUE
  ELSE IF Contains(fp_code_clean, "typeof") /\ Contains(fp_code_clean, "object")
    THEN Contains(detection_code_clean, "typeof")
           /\ Contains(detection_code_clean, "object")
  ELSE IF Contains(fp_code_clean, "expect(")
            /\ Contains(fp_code_clean, ").toBeDefined()")
    THEN to_be_defined_matches(ToBeDefinedTarget(fp_code_clean),
                               ToBeDefinedTarget(detection_code_clean))
  ELSE IF Contains(fp_code_clean, "catch") /\ Contains(fp_code_clean, "error")
    THEN Contains(detection_code_clean, "catch")
           /\ Contains(detection_code_clean, "error")
  ELSE FALSE

\* words_match that asks for more than 70% (overlap / total_unique > 0.7):
\* the variant under which the property of C12 has to fail
words_match_above(fp_words, det_words) ==
  /\ fp_words # {}
  /\ det_words # {}
  /\ 10 * Cardinality(fp_words \cap det_words)
       > 7 * Cardinality(fp_words \cup det_words)

\* the fallback: overlap / total_unique >= 0.7 on the key words
words_match(fp_words, det_words) ==
  /\ fp_words # {}
  /\ det_words # {}
  /\ 10 * Cardinality(fp_words \cap det_words)
       >= 7 * Cardinality(fp_words \cup det_words)

\* code_matches after the special handling has set it to conditional
code_matches_after(conditional, fp_code_clean, detection_code_clean) ==
  \/ conditional
  \/ chain_matches(conditional, fp_code_clean, detection_code_clean)
  \/ words_match(KeyWords(fp_code_clean), KeyWords(detection_code_clean))

code_matches_clean(fp_pattern_name, fp_code_clean, detection_code_clean) ==
  code_matches_after(
    conditional_matches(fp_pattern_name, fp_code_clean, detection_code_clean),
    fp_code_clean, detection_code_clean)

\* the code snippet check of is_false_positive: the value of code_matches
\* after the fallback, for the snippet of the finding and the code line of
\* the detection
code_matches(fp_pattern_name, fp_code_snippet, detection_code_line) ==
  code_matches_clean(fp_pattern_name, CleanCode(fp_code_snippet),
                     CleanCode(detection_code_line))

\* line_in_range with the upper end of the range left out
\* (actual_line < fuzzy_end): the variant under which the property of C2
\* has to fail
line_in_range_strict(line_range, actual_line, tolerance) ==
  /\ line_range[1] - tolerance <= actual_line
  /\ actual_line < line_range[2] + tolerance

\* fuzzy_start <= actual_line <= fuzzy_end, for a line_range [start, end]
line_in_range(line_range, actual_line, tolerance) ==
  LET expected_start == line_range[1]
      expected_end == line_range[2]
      fuzzy_start ==
        IF expected_start = expected_end
        THEN expected_start - tolerance
        ELSE expected_start - tolerance
      fuzzy_end ==
        IF expected_start = expected_end
        THEN expected_end + tolerance
        ELSE expected_end + tolerance
  IN  fuzzy_start <= actual_line /\ actual_line <= fuzzy_end

\* fp_reason without the confidence: the variant under which the property
\* of C3 has to fail
fp_reason_without_confidence(fp) == fp.reason

\* f"{fp.reason} (confidence: {fp.confidence})"
fp_reason(fp) == fp.reason \o " (confidence: " \o fp.confidence \o ")"

(***************************************************************************)
(* The context classifiers                                                  *)
(***************************************************************************)
\* r'^\s*if\s*\([^)]*\)\s*\{?\s*$'
IfHeader == Cat(<<Bol, Star(Sp), Lit("if"), Star(Sp), Lit("("), Star(NotParen), Lit(")"), Star(Sp), Opt(Lit("{")), Star(Sp), Eol>>)

\* r'^\s*it\s*\('
ItHeader == Cat(<<Bol, Star(Sp), Lit("it"), Star(Sp), Lit("(")>>)

\* r'^\s*(?:it|describe)\s*\('
ItOrDescribeHeader == Cat(<<Bol, Star(Sp), Alt(Lit("it"), Lit("describe")), Star(Sp), Lit("(")>>)

CountIn(s, c) == CountChar(s, c, Len(s))

\* brace_count after the lines i..j of the brace loop
RECURSIVE BraceCount(_, _, _)
BraceCount(file_lines, i, j) ==
  IF j < i THEN 0
  ELSE BraceCount(file_lines, i, j - 1)
         + CountIn(Strip(LineAt(file_lines, j)), "{")
         - CountIn(Strip(LineAt(file_lines, j)), "}")

\* The first loop of is_legitimate_to_be_defined: an if header on one of
\* the 10 lines before the match, and a line j after the match on which
\* the braces counted from the header are closed.
inside_conditional_block(file_lines, index) ==
  \E i \in Range(Max(0, index - 10), index) :
    /\ ReMatch(IfHeader, Strip(LineAt(file_lines, i)))
    /\ \E j \in Range(i, Min(Len(file_lines), index + 10)) :
         /\ Contains(Strip(LineAt(file_lines, j)), "}")
         /\ \E m \in i..j : Contains(Strip(LineAt(file_lines, m)), "{")   \* found_opening
         /\ BraceCount(file_lines, i, j) <= 0
         /\ j > index

\* if_header_before looking at the 5 lines before the match only: the
\* variant under which the property of C11 has to fail
if_header_before_five(file_lines, index) ==
  \E i \in Range(Max(0, index - 5), index) :
    ReMatch(IfHeader, Strip(LineAt(file_lines, i)))

\* the loops  for i in range(max(0, line_index - 10), line_index)  of the
\* other classifiers: an if header on one of the 10 lines before the match
if_header_before(file_lines, index) ==
  \E i \in Range(Max(0, index - 10), index) :
    ReMatch(IfHeader, Strip(LineAt(file_lines, i)))

\* an it( header on one of the 5 lines before the match
it_header_before(file_lines, index) ==
  \E i \in Range(Max(0, index - 5), index) :
    ReMatch(ItHeader, Strip(LineAt(file_lines, i)))

\* A look-ahead loop over range(line_index + 1, min(len(lines), line_index + n))
\* that returns True on the first line satisfying Hit and, when stops is
\* TRUE, breaks on an it( or describe( header.
look_ahead(file_lines, index, n, Hit(_), stops) ==
  \E i \in Range(index + 1, Min(Len(file_lines), index + n)) :
    /\ Hit(Strip(LineAt(file_lines, i)))
    /\ stops => \A m \in Range(index + 1, i) :
                  ~ReMatch(ItOrDescribeHeader, Strip(LineAt(file_lines, m)))

\* the number of other lines within 3 lines of the match that contain text
nearby(file_lines, index, text) ==
  Cardinality({i \in Range(Max(0, index - 3), Min(Len(file_lines), index + 4)) :
                 i # index /\ Contains(LineAt(file_lines, i), text)})

is_legitimate_to_be_defined(file_lines, index, l) ==
  LET current_line == Strip(l)
  IN  IF inside_conditional_block(file_lines, index) THEN FALSE
      ELSE IF nearby(file_lines, index, "toBeDefined()") >= 2 THEN TRUE
      ELSE IF /\ ReSearch(Cat(<<Lit("expect(window."), Plus(W), Lit(").toBeDefined()")>>), current_line)
              /\ look_ahead(file_lines, index, 10,
                   LAMBDA next_line :
                     /\ ReSearch(Cat(<<Lit("expect("), Plus(NotParen), Lit(").to"), Alt(Lit("Be"), Alt(Lit("Equal"), Alt(Lit("Contain"), Alt(Lit("HaveLength"), Lit("BeGreaterThan")))))>>), next_line)
                     /\ ~Contains(next_line, "toBeDefined"),
                   TRUE)
        THEN TRUE
      ELSE IF /\ ReSearch(Cat(<<Lit("expect("), Plus(W), Alt(Lit("Manager"), Lit("Builder")), Lit(").toBeDefined()")>>), current_line)
              /\ look_ahead(file_lines, index, 8,
                   LAMBDA next_line :
                     ReSearch(Cat(<<Plus(W), Alt(Lit("Manager"), Lit("Builder")), Lit("."), Plus(W), Lit("(")>>), next_line),
                   FALSE)
        THEN TRUE
      ELSE IF Contains(current_line, "STO_DATA") THEN TRUE
      ELSE IF it_header_before(file_lines, index) THEN TRUE
      ELSE FALSE

is_legitimate_instanceof_check(file_lines, index, l) ==
  LET current_line == Strip(l)
  IN  IF if_header_before(file_lines, index) THEN FALSE
      ELSE IF ReSearch(Cat(<<Lit("expect(window."), Plus(W), Lit(").toBeInstanceOf(Object)")>>), current_line)
        THEN TRUE
      ELSE IF ReSearch(Cat(<<Lit("expect("), Plus(W), Lit("Manager).toBeInstanceOf(Object)")>>), current_line)
        THEN TRUE
      ELSE IF it_header_before(file_lines, index) THEN TRUE
      ELSE IF nearby(file_lines, index, "toBeInstanceOf") >= 1 THEN TRUE
      ELSE FALSE

is_legitimate_object_type_check(file_lines, index, l) ==
  LET current_line == Strip(l)
  IN  IF if_header_before(file_lines, index) THEN FALSE
      ELSE IF ReSearch(Cat(<<Lit("expect(typeof"), Plus(Sp), Star(W), In({"P", "p"}), Lit("aram"), Opt(Lit("s")), Star(W), Lit(")")>>), current_line)
        THEN TRUE
      ELSE IF ReSearch(Cat(<<Lit("expect(typeof"), Plus(Sp), Star(W), In({"D", "d"}), Lit("ata"), Star(W), Lit(")")>>), current_line)
        THEN TRUE
      ELSE look_ahead(file_lines, index, 5,
             LAMBDA next_line :
               ReSearch(Cat(<<Lit("expect("), Plus(NotParen), Lit(").to"), Alt(Lit("HaveProperty"), Alt(Lit("Equal"), Lit("Contain")))>>), next_line),
             TRUE)

is_legitimate_function_existence_check(file_lines, index, l) ==
  LET current_line == Strip(l)
  IN  IF if_header_before(file_lines, index) THEN FALSE
      ELSE IF ReSearch(Cat(<<Lit("expect(window."), Plus(W), Lit("."), Plus(W), Lit(").toBeInstanceOf(Function)")>>), current_line)
        THEN TRUE
      ELSE IF it_header_before(file_lines, index) THEN TRUE
      ELSE look_ahead(file_lines, index, 8,
             LAMBDA next_line :
               /\ ReSearch(Cat(<<Plus(W), Lit("."), Plus(W), Lit("(")>>), next_line)
               /\ ~Contains(next_line, "expect"),
             TRUE)

is_legitimate_expect_anything(file_lines, index, l) ==
  LET current_line == Strip(l)
  IN  \/ ReSearch(Cat(<<Lit("default:"), Star(Sp), Lit("expect.anything()")>>), current_line)
      \/ ReSearch(Cat(<<Alt(Lit("created"), Alt(Lit("modified"), Lit("timestamp"))), Lit(":"), Star(Sp), Lit("expect.anything()")>>), current_line)
      \/ ReSearch(Cat(<<Lit("parameter"), Opt(Lit("s")), Lit(":"), Star(Sp), Lit("expect.anything()")>>), current_line)

(***************************************************************************)
(* The file system: the files a scan can meet.  A file is a path and the    *)
(* list readlines() returns for it; an unreadable file has readable FALSE.  *)
(* Files is defined with the scenarios below.                               *)
(***************************************************************************)
RECURSIVE Join(_)
Join(file_lines) == IF file_lines = <<>> THEN "" ELSE Head(file_lines) \o Join(Tail(file_lines))

\* Detection(filename, line_number, pattern_name, code_line, context,
\* is_false_positive = False, false_positive_reason = None); the context
\* lines are only printed and are left out
Detection(filename, line_number, pattern_name, code_line) ==
  [filename |-> filename, line_number |-> line_number,
   pattern_name |-> pattern_name, code_line |-> code_line,
   is_false_positive |-> FALSE, false_positive_reason |-> None]

\* the classifier a rule name is dispatched to; TRUE means the match is
\* skipped
skip_legitimate(name, file_lines, index, stripped_line) ==
  IF name = "Weak toBeDefined Assertion"
    THEN is_legitimate_to_be_defined(file_lines, index, stripped_line)
  ELSE IF name = "Weak Instanceof Fallback"
    THEN is_legitimate_instanceof_check(file_lines, index, stripped_line)
  ELSE IF name = "Weak Object Type Check"
    THEN is_legitimate_object_type_check(file_lines, index, stripped_line)
  ELSE IF name = "Function Existence Test"
    THEN is_legitimate_function_existence_check(file_lines, index, stripped_line)
  ELSE IF name = "Generic expect.anything() Overuse"
    THEN is_legitimate_expect_anything(file_lines, index, stripped_line)
  ELSE FALSE

\* detections_from with line_index for the line number instead of
\* line_index + 1: the variant under which the property of C7 has to fail
RECURSIVE detections_from_zero_based(_, _, _, _, _)
detections_from_zero_based(kept, k, filepath, index, stripped_line) ==
  IF k > Len(kept) THEN <<>>
  ELSE <<Detection(filepath, index, kept[k].name, Strip(stripped_line))>>
         \o detections_from_zero_based(kept, k + 1, filepath, index, stripped_line)

\* the Detections created for the rules kept[k], kept[k+1], ...
RECURSIVE detections_from(_, _, _, _, _)
detections_from(kept, k, filepath, index, stripped_line) ==
  IF k > Len(kept) THEN <<>>
  ELSE <<Detection(filepath, index + 1, kept[k].name, Strip(stripped_line))>>
         \o detections_from(kept, k + 1, filepath, index, stripped_line)

\* the loop over self.anti_patterns for one line: the Detections created
\* for the line, in the order of the rules, before the registry is
\* consulted
rule_loop(rules, filepath, file_lines, index, stripped_line) ==
  LET kept ==
        SelectSeq(rules,
                  LAMBDA pattern :
                    /\ ReSearchI(pattern.pattern, stripped_line)
                    /\ ~skip_legitimate(pattern.name, file_lines, index, stripped_line))
  IN  detections_from(kept, 1, filepath, index, stripped_line)

\* one iteration of  for line_index, line in enumerate(lines)
line_matches(rules, filepath, file_lines, index) ==
  LET stripped_line == strip_comments(LineAt(file_lines, index))
  IN  IF Strip(stripped_line) = "" THEN <<>>
      ELSE rule_loop(rules, filepath, file_lines, index, stripped_line)

\* match.group().replace('\n', ' ').strip()[:80] + "..."
multiline_code_line(text) ==
  LET flat == Strip(StrReplace(text, "\n", " "))
  IN  SubSeq(flat, 1, Min(80, Len(flat))) \o "..."

\* the Detections of one whole-file expression
\* one Detection for each of the matches spans of the expression p
multiline_detections(p, filepath, content, spans) ==
  [k \in 1..Len(spans) |->
     Detection(filepath,
               CountChar(content, "\n", spans[k][1] - 1) + 1,
               p.name,
               multiline_code_line(SubSeq(content, spans[k][1], spans[k][2] - 1)))]

multiline_matches(p, filepath, content) ==
  multiline_detections(p, filepath, content, FindIter(p.pattern, content, 1))

RECURSIVE multiline_loop(_, _, _)
multiline_loop(k, filepath, content) ==
  IF k > Len(multiline_patterns) THEN <<>>
  ELSE multiline_matches(multiline_patterns[k], filepath, content)
         \o multiline_loop(k + 1, filepath, content)

detect_multiline_patterns(filepath, file_lines) == multiline_loop(1, filepath, Join(file_lines))

\* fp_matches without the comparison of the rule names: the variant under
\* which the property of C1 has to fail
fp_matches_any_rule(fp, detection, actual_function, tolerance) ==
  /\ paths_match(detection.filename, fp.file)
  /\ fuzzy_match_function(actual_function, fp.function)
  /\ line_in_range(fp.line_range, detection.line_number, tolerance)
  /\ code_matches(fp.pattern_name, fp.code_snippet, detection.code_line)

\* one rule check after the other, as the loop body of is_false_positive
\* makes them: rule name, file path, enclosing function, line range, code
\* snippet
fp_matches(fp, detection, actual_function, tolerance) ==
  /\ fp.pattern_name = detection.pattern_name
  /\ paths_match(detection.filename, fp.file)
  /\ fuzzy_match_function(actual_function, fp.function)
  /\ line_in_range(fp.line_range, detection.line_number, tolerance)
  /\ code_matches(fp.pattern_name, fp.code_snippet, detection.code_line)

\* fp_loop that returns after the first entry it looks at, matching or
\* not: the variant under which the property of C4 has to fail
fp_loop_first_only(registry, k, detection, actual_function, tolerance) ==
  IF k > Len(registry) THEN <<FALSE, None>>
  ELSE IF fp_matches(registry[k], detection, actual_function, tolerance)
    THEN <<TRUE, Some(fp_reason(registry[k]))>>
  ELSE <<FALSE, None>>

\* fp_loop that goes on after a match, so that the last matching entry
\* supplies the reason: the variant under which the property of C5 has to
\* fail
RECURSIVE fp_loop_last_wins(_, _, _, _, _)
fp_loop_last_wins(registry, k, detection, actual_function, tolerance) ==
  IF k > Len(registry) THEN <<FALSE, None>>
  ELSE LET later == fp_loop_last_wins(registry, k + 1, detection, actual_function, tolerance)
       IN  IF later[1] THEN later
           ELSE IF fp_matches(registry[k], detection, actual_function, tolerance)
             THEN <<TRUE, Some(fp_reason(registry[k]))>>
           ELSE <<FALSE, None>>

\* for fp in self.false_positives, from the k-th on: the pair the method
\* returns
RECURSIVE fp_loop(_, _, _, _, _)
fp_loop(registry, k, detection, actual_function, tolerance) ==
  IF k > Len(registry) THEN <<FALSE, None>>
  ELSE IF fp_matches(registry[k], detection, actual_function, tolerance)
    THEN <<TRUE, Some(fp_reason(registry[k]))>>
  ELSE fp_loop(registry, k + 1, detection, actual_function, tolerance)

\* opened is Some(lines) for what readlines() returns for detection.filename,
\* None when the file cannot be read
is_false_positive(registry, tolerance, detection, opened) ==
  IF opened = None THEN <<FALSE, None>>
  ELSE fp_loop(registry, 1, detection,
               extract_function_name(opened[1], detection.line_number - 1),
               tolerance)

\* detection._replace(is_false_positive = True, false_positive_reason = ...)
\* when the registry matches
replaced(detection, r) ==
  IF r[1]
  THEN [detection EXCEPT !.is_false_positive = TRUE, !.false_positive_reason = r[2]]
  ELSE detection

checked(registry, tolerance, detection, opened) ==
  replaced(detection, is_false_positive(registry, tolerance, detection, opened))

(***************************************************************************)
(* The registry file and load_false_positives                               *)
(***************************************************************************)
\* FalsePositive(file, function, line_range, pattern_name, code_snippet,
\* reason, reviewed_by, review_date, confidence) built from one entry
FalsePositive(fp_data) ==
  [file |-> fp_data.file, function |-> fp_data.function,
   line_range |-> fp_data.line_range, pattern_name |-> fp_data.pattern_name,
   code_snippet |-> fp_data.code_snippet, reason |-> fp_data.reason,
   reviewed_by |-> fp_data.reviewed_by, review_date |-> fp_data.review_date,
   confidence |-> fp_data.confidence]

\* the keys load_false_positives reads of every entry
RequiredFields ==
  {"file", "function", "line_range", "pattern_name", "code_snippet", "reason",
   "reviewed_by", "review_date", "confidence"}

Complete(fp_data) == RequiredFields \subseteq DOMAIN fp_data

\* load_false_positives that passes over an entry without a required key
\* and keeps the others: the variant under which the property of C16 has
\* to fail
load_false_positives_skipping(document) ==
  IF document.state = "absent" THEN <<>>
  ELSE IF document.state = "unparsable" THEN <<>>
  ELSE LET complete == SelectSeq(document.false_positives, Complete)
       IN  [k \in 1..Len(complete) |-> FalsePositive(complete[k])]

\* A registry file is absent, unparsable, or a document with a list of
\* entries under "false_positives".  An entry without one of the keys
\* raises KeyError, and the except clause returns the empty list.
load_false_positives(document) ==
  IF document.state = "absent" THEN <<>>
  ELSE IF document.state = "unparsable" THEN <<>>
  ELSE IF \E k \in 1..Len(document.false_positives) :
            ~Complete(document.false_positives[k])
    THEN <<>>
  ELSE [k \in 1..Len(document.false_positives) |->
          FalsePositive(document.false_positives[k])]

(***************************************************************************)
(* Reporting and the exit status                                            *)
(***************************************************************************)
\* get_pattern_by_name: the first rule of that name, None without one
get_pattern_by_name(name) ==
  LET found == {k \in 1..Len(anti_patterns) : anti_patterns[k].name = name}
  IN  IF found = {} THEN None
      ELSE Some(anti_patterns[CHOOSE k \in found : \A m \in found : k <= m])

true_positives(found) == SelectSeq(found, LAMBDA d : ~d.is_false_positive)

\* pattern_def.severity on the result of get_pattern_by_name raises
\* AttributeError when the result is None
severity_raises(found) ==
  \E k \in 1..Len(found) : get_pattern_by_name(found[k].pattern_name) = None

\* print_detections: what it prints, reduced to the kind of report, and
\* whether it raises
print_detections(found) ==
  LET tp == true_positives(found)
      fps == SelectSeq(found, LAMBDA d : d.is_false_positive)
  IN  IF tp = <<>> /\ fps = <<>> THEN [raised |-> FALSE, report |-> "No anti-patterns detected!"]
      ELSE IF tp = <<>> THEN [raised |-> FALSE, report |-> "No true positive anti-patterns detected!"]
      ELSE IF severity_raises(tp) THEN [raised |-> TRUE, report |-> "DETECTED"]
      ELSE [raised |-> FALSE, report |-> "SUMMARY BY SEVERITY"]

\* sum(1 for d in true_positives if get_pattern_by_name(...).severity == "high")
high_severity_count(found) ==
  LET tp == true_positives(found)
  IN  Cardinality({k \in 1..Len(tp) :
                     get_pattern_by_name(tp[k].pattern_name)[1].severity = "high"})

(***************************************************************************)
(* The files a scan can meet                                                *)
(***************************************************************************)
TestFile(path, file_lines) == [path |-> path, readable |-> TRUE, lines |-> file_lines]

\* a conditional with its assertion on one line
FA1 == "test/suites/a1.test.js"
\* the same conditional on three lines
FA3 == "test/suites/a3.test.js"
\* a definedness assertion as the first statement of an it( test
FBit == "test/suites/bit.test.js"
\* the same assertion as the first statement of a test( test
FBtest == "test/suites/btest.test.js"
\* an assertion inside a block comment that spans three lines
FC == "test/suites/c.test.js"
\* a trivially true assertion inside a test
FT == "test/suites/save.test.js"
\* a window mock followed by a definedness assertion
FW == "test/suites/mock.test.js"
\* the same mock and assertion in a test( test
FS == "test/suites/stub.test.js"
\* a test file that cannot be opened
FU == "test/suites/locked.test.js"
\* a file whose name is not that of a test file
FH == "test/suites/helper.js"

Files ==
  <<TestFile(FA1,
             <<"if (window.fooApi) { expect(result).toBeTruthy(); }\n">>),
    TestFile(FA3,
             <<"if (window.fooApi) {\n",
               "  expect(result).toBeTruthy();\n",
               "}\n">>),
    TestFile(FBit,
             <<"it('loads', () => {\n",
               "  expect(window.stoKeybinds).toBeDefined();\n",
               "});\n">>),
    TestFile(FBtest,
             <<"test('loads', () => {\n",
               "  expect(window.stoKeybinds).toBeDefined();\n",
               "});\n">>),
    TestFile(FC,
             <<"/* start\n",
               "  expect(true).toBeTruthy();\n",
               "*/\n">>),
    TestFile(FT,
             <<"it('saves', () => {\n",
               "  expect(true).toBeTruthy();\n",
               "});\n">>),
    TestFile(FW,
             <<"it('mocks', () => {\n",
               "  window.foo = {};\n",
               "  init();\n",
               "  expect(window.foo).toBeDefined();\n",
               "});\n">>),
    TestFile(FS,
             <<"test('stubs', () => {\n",
               "  window.foo = {};\n",
               "  init();\n",
               "  expect(window.foo).toBeDefined();\n",
               "});\n">>),
    [path |-> FU, readable |-> FALSE, lines |-> <<>>],
    TestFile(FH,
             <<"expect(true).toBeTruthy();\n">>)>>

Paths == {Files[k].path : k \in DOMAIN Files}

FileAt(path) == Files[CHOOSE k \in DOMAIN Files : Files[k].path = path]

\* the file name of a path: what os.walk lists in a directory
BaseName(path) == LastOf(Split(path, "/"))

\* file_pattern of scan_directory: r'.*\.test\.js$'
file_pattern == Cat(<<Star(Dot), Lit(".test.js"), Eol>>)

\* open(path).readlines(): Some(lines), or None when open raises
ReadLines(path) ==
  IF path \in Paths /\ FileAt(path).readable THEN Some(FileAt(path).lines) ELSE None

FileNumber(path) == CHOOSE k \in DOMAIN Files : Files[k].path = path

\* for line_index, line in enumerate(lines), from line_index on: for each
\* line the Detections created for it, before the registry is consulted
RECURSIVE lines_loop(_, _, _)
lines_loop(filepath, file_lines, i) ==
  IF i >= Len(file_lines) THEN <<>>
  ELSE <<line_matches(anti_patterns, filepath, file_lines, i)>>
         \o lines_loop(filepath, file_lines, i + 1)

\* What the scan computes for each line of each file before the registry
\* is consulted, and for each file as a whole.  The files do not change
\* during a run, so the values are tabulated once, file by file.
RECURSIVE LinesFrom(_)
LinesFrom(k) ==
  IF k > Len(Files) THEN <<>>
  ELSE <<lines_loop(Files[k].path, Files[k].lines, 0)>> \o LinesFrom(k + 1)

RECURSIVE WholeFrom(_)
WholeFrom(k) ==
  IF k > Len(Files) THEN <<>>
  ELSE <<detect_multiline_patterns(Files[k].path, Files[k].lines)>> \o WholeFrom(k + 1)

LinesScanned == LinesFrom(1)

WholeScanned == WholeFrom(1)

LineMatchesOf(path, i) == LinesScanned[FileNumber(path)][i + 1]

MultilineMatchesOf(path) == WholeScanned[FileNumber(path)]

(***************************************************************************)
(* The registry entries a run can load                                      *)
(***************************************************************************)
Entry(file, function, line_range, pattern_name, code_snippet, reason, confidence) ==
  [file |-> file, function |-> function, line_range |-> line_range,
   pattern_name |-> pattern_name, code_snippet |-> code_snippet,
   reason |-> reason, reviewed_by |-> "reviewer", review_date |-> "2024-06-01",
   confidence |-> confidence]

MaxLine == 4
MaxTol == 1
MaxFindings == 2
MaxFiles == 2

\* the command line default of --line-tolerance
DefaultLineTolerance == 5

\* The line scanner finds one thing in FT: the rule "Generic toBeTruthy
\* Fallback" on line 2, inside the test "saves".  The whole-file scanner
\* finds one thing in FW: the rule "Window Mock Without Integration
\* Testing" from line 2 on, inside the test "mocks".  The entries below are
\* what a reviewer writes into the registry file about the two.

\* entries that agree with the finding in FT in everything, with every
\* line range of one or two lines that starts on lines 0..MaxLine
RangeEntry(first, last) ==
  Entry(FT, "saves", <<first, last>>, "Generic toBeTruthy Fallback",
        "expect(true).toBeTruthy();", "smoke test kept on purpose", "high")

RangeEntries == {RangeEntry(first, first + w) : first \in 0..MaxLine, w \in {0, 1}}

ExactEntry == RangeEntry(2, 2)

\* a second entry for the same finding, with another reason
SecondEntry ==
  Entry(FT, "saves", <<2, 2>>, "Generic toBeTruthy Fallback",
        "expect(true).toBeTruthy();", "covered by the integration suite", "medium")

\* entries that differ from ExactEntry in one of the things compared
OtherRuleEntry ==
  Entry(FT, "saves", <<2, 2>>, "Weak toBeDefined Assertion",
        "expect(true).toBeTruthy();", "reviewed under another rule", "low")
OtherFileEntry ==
  Entry("test/unit/load.test.js", "saves", <<2, 2>>, "Generic toBeTruthy Fallback",
        "expect(true).toBeTruthy();", "reviewed in another file", "high")
OtherFunctionEntry ==
  Entry(FT, "renders", <<2, 2>>, "Generic toBeTruthy Fallback",
        "expect(true).toBeTruthy();", "reviewed in another test", "high")
OtherCodeEntry ==
  Entry(FT, "saves", <<2, 2>>, "Generic toBeTruthy Fallback",
        "return cleanup(handle);", "reviewed for other code", "high")

\* an entry that agrees with the finding of the whole-file scanner in FW
WholeFileEntry ==
  Entry(FW, "mocks", <<2, 2>>, "Window Mock Without Integration Testing",
        "window.foo = {};", "mock is the unit under test", "high")

SingleEntries ==
  RangeEntries \cup {OtherFileEntry, OtherFunctionEntry, OtherCodeEntry}

RivalEntries == {ExactEntry, SecondEntry, OtherRuleEntry, WholeFileEntry}

SeqsUpTo(S, n) == UNION {[1..m -> S] : m \in 0..n}

Document(entries) == [state |-> "document", false_positives |-> entries]

\* registry files without entries
PlainRegistries ==
  {[state |-> "absent", false_positives |-> <<>>],
   [state |-> "unparsable", false_positives |-> <<>>],
   Document(<<>>)}

\* an entry as a reviewer wrote it who left a key out
Without(entry, key) == [k \in DOMAIN entry \ {key} |-> entry[k]]

\* registry files with an entry that lacks a key
PartialRegistries ==
  {Document(<<Without(ExactEntry, "reviewed_by")>>),
   Document(<<ExactEntry, Without(SecondEntry, "confidence")>>),
   Document(<<Without(WholeFileEntry, "line_range"), ExactEntry>>)}

\* registry files with entries
ReviewRegistries ==
  {Document(<<en>>) : en \in SingleEntries}
    \cup {Document(es) : es \in SeqsUpTo(RivalEntries, MaxFindings) \ {<<>>}}

\* the files os.walk lists, in the order it lists them
Walks == {w \in SeqsUpTo(Paths, MaxFiles) : \A i, j \in DOMAIN w : i # j => w[i] # w[j]}

Directory(files) == [exists |-> TRUE, files |-> files]
MissingDirectory == [exists |-> FALSE, files |-> <<>>]

\* a run: the directory, the registry file and the tolerance it is given
Runs ==
  [directory : {Directory(w) : w \in Walks} \cup {MissingDirectory},
   registry_file : PlainRegistries,
   line_tolerance : {DefaultLineTolerance}]
  \cup
  [directory : {Directory(<<FT>>), Directory(<<FT, FW>>)},
   registry_file : PartialRegistries,
   line_tolerance : {DefaultLineTolerance}]
  \cup
  [directory : {Directory(<<FT>>), Directory(<<FW>>), Directory(<<FT, FW>>)},
   registry_file : ReviewRegistries,
   line_tolerance : 0..MaxTol]

(***************************************************************************)
(* check_duplicate_i18n_keys.py                                             *)
(***************************************************************************)
\* str.startswith
StartsWith(s, prefix) ==
  Len(prefix) <= Len(s) /\ SubSeq(s, 1, Len(prefix)) = prefix

\* r'"([^"]+)"\s*:'
KeyPattern ==
  Cat(<<Lit("\""), Group(Plus(NotIn({"\""}))), Lit("\""), Star(Sp), Lit(":")>>)

\* '.'.join(filter(None, parts))
RECURSIVE JoinDots(_)
JoinDots(parts) ==
  IF parts = <<>> THEN ""
  ELSE IF Head(parts) = "" THEN JoinDots(Tail(parts))
  ELSE IF JoinDots(Tail(parts)) = "" THEN Head(parts)
  ELSE Head(parts) \o "." \o JoinDots(Tail(parts))

\* the directory find_duplicate_keys reads en.json from, whatever
\* directory check_duplicates was given: Path('src/i18n/en.json')
FixedDir == "src/i18n"

\* find_duplicate_keys before its loop: current_path, key_paths, duplicates
scan_start == [current_path |-> <<>>, key_paths |-> <<>>, duplicates |-> <<>>]

\* key_paths and duplicates are dicts: sequences of <<key, value>> in the
\* order of insertion
HasKey(dict, key) == \E k \in DOMAIN dict : dict[k][1] = key

ValueOf(dict, key) == dict[CHOOSE k \in DOMAIN dict : dict[k][1] = key][2]

\* dict[key] = value
Put(dict, key, value) ==
  IF HasKey(dict, key)
  THEN [k \in DOMAIN dict |-> IF dict[k][1] = key THEN <<key, value>> ELSE dict[k]]
  ELSE Append(dict, <<key, value>>)

\* the brace test at the head of the loop body
path_after_braces(current_path, text) ==
  IF StartsWith(text, "{") THEN Append(current_path, "")
  ELSE IF StartsWith(text, "}") /\ current_path # <<>>
    THEN SubSeq(current_path, 1, Len(current_path) - 1)
  ELSE current_path

\* path_to_use of a key under the current path
path_to_use(current_path, key, sensitive) ==
  IF sensitive THEN JoinDots(Append(current_path, key))
  ELSE Lower(JoinDots(Append(current_path, key)))

\* the loop body for a line with a key: the line is recorded under the
\* path of the key, and a key that opens an object is appended to
\* current_path
record_key(st, current_path, key, path, line_num, text) ==
  [current_path |-> IF EndsWith(text, "{") THEN Append(current_path, key)
                    ELSE current_path,
   key_paths |-> IF HasKey(st.key_paths, path) THEN st.key_paths
                 ELSE Put(st.key_paths, path, line_num),
   duplicates |-> IF ~HasKey(st.key_paths, path) THEN st.duplicates
                  ELSE IF HasKey(st.duplicates, path)
                    THEN Put(st.duplicates, path,
                             Append(ValueOf(st.duplicates, path), line_num))
                  ELSE Put(st.duplicates, path,
                           <<ValueOf(st.key_paths, path), line_num>>)]

\* the loop body after the brace test, key_match being the group of
\* re.search(r'"([^"]+)"\s*:', line)
scan_text(st, current_path, key_match, line_num, text, sensitive) ==
  IF key_match = None THEN [st EXCEPT !.current_path = current_path]
  ELSE record_key(st, current_path, key_match[1],
                  path_to_use(current_path, key_match[1], sensitive),
                  line_num, text)

\* the loop body for the stripped line
scan_line(st, line_num, text, sensitive) ==
  IF text = "" \/ StartsWith(text, "//") THEN st
  ELSE scan_text(st, path_after_braces(st.current_path, text),
                 SearchGroup(KeyPattern, text), line_num, text, sensitive)

\* for line_num, line in enumerate(f, 1), from line_num on
RECURSIVE scan_lines(_, _, _, _)
scan_lines(st, file_lines, line_num, sensitive) ==
  IF line_num > Len(file_lines) THEN st
  ELSE scan_lines(scan_line(st, line_num, Strip(file_lines[line_num]), sensitive),
                  file_lines, line_num + 1, sensitive)

\* [f"Line {line}" for line in v]
LineLabels(numbers) == [k \in DOMAIN numbers |-> <<"Line", numbers[k]>>]

\* the dict find_duplicate_keys returns, from the duplicates of its loop
labelled(found) == [k \in DOMAIN found |-> <<found[k][1], LineLabels(found[k][2])>>]

\* find_duplicate_keys: {key_path: ["Line n", ...]}, read from the en.json
\* of FixedDir; Some(dict), or None when open raises
find_duplicate_keys(files, sensitive) ==
  IF files[FixedDir] = None THEN None
  ELSE Some(labelled(scan_lines(scan_start, files[FixedDir][1].lines, 1, sensitive).duplicates))

\* check_duplicates after find_duplicate_keys: the code it returns and the
\* duplicates it prints
check_outcome(found) ==
  IF found = None THEN [return_code |-> 1, reported |-> <<>>]
  ELSE IF found[1] # <<>> THEN [return_code |-> 1, reported |-> found[1]]
  ELSE [return_code |-> 0, reported |-> <<>>]

\* check_duplicates(i18n_dir, case_sensitive), files being the en.json of
\* each directory
check_duplicates(dir, sensitive, files) ==
  IF files[dir] = None THEN [return_code |-> 1, reported |-> <<>>]
  ELSE IF ~files[dir][1].valid THEN [return_code |-> 1, reported |-> <<>>]
  ELSE check_outcome(find_duplicate_keys(files, sensitive))

\* an en.json: its lines, and whether json.load accepts it
EnFile(valid, file_lines) == Some([valid |-> valid, lines |-> file_lines])

EnPlain ==
  EnFile(TRUE, <<"{\n", "  \"save\": \"Save\",\n", "  \"load\": \"Load\"\n", "}\n">>)

EnTwice ==
  EnFile(TRUE, <<"{\n", "  \"save\": \"Save\",\n", "  \"save\": \"Store\"\n", "}\n">>)

EnCase ==
  EnFile(TRUE, <<"{\n", "  \"Save\": \"Save\",\n", "  \"save\": \"Store\"\n", "}\n">>)

EnNested ==
  EnFile(TRUE, <<"{\n", "  \"menu\": {\n", "    \"save\": \"Save\"\n", "  },\n",
                 "  \"save\": \"Store\"\n", "}\n">>)

EnNestedTwice ==
  EnFile(TRUE, <<"{\n", "  \"menu\": {\n", "    \"save\": \"Save\",\n",
                 "    \"save\": \"Store\"\n", "  },\n",
                 "  \"save\": \"Keep\"\n", "}\n">>)

EnBroken ==
  EnFile(FALSE, <<"{\n", "  \"save\": \"Save\",\n", "}\n">>)

\* what a directory can hold as en.json; None: no such file
EnFiles == {EnPlain, EnTwice, EnCase, EnNested, EnNestedTwice, EnBroken, None}

OtherDir == "locales"

I18nDirs == {FixedDir, OtherDir}

\* the state of check_duplicates while the detector runs
I18nIdle ==
  /\ i18n_dir = FixedDir
  /\ case_sensitive = FALSE
  /\ en_files = [d \in I18nDirs |-> None]
  /\ return_code = None
  /\ reported = <<>>

(***************************************************************************)
(* update_translations.py                                                   *)
(***************************************************************************)
\* JSON values: a string, or an object with its entries, a function from
\* keys to values
Str(text) == [kind |-> "str", text |-> text]
Obj(entries) == [kind |-> "dict", entries |-> entries]

\* d[k] = v
with_key(d, k, v) == [x \in DOMAIN d \cup {k} |-> IF x = k THEN v ELSE d[x]]

\* d[k] after  if k not in d or not isinstance(d[k], dict): d[k] = {}
child(d, k) ==
  IF k \in DOMAIN d /\ d[k].kind = "dict" THEN d[k].entries ELSE <<>>

\* set_by_dot_notation on the keys of dotted_key.split('.')
RECURSIVE set_by_keys(_, _, _)
set_by_keys(d, keys, value) ==
  IF Len(keys) = 1 THEN with_key(d, keys[1], value)
  ELSE with_key(d, keys[1], Obj(set_by_keys(child(d, keys[1]), Tail(keys), value)))

set_by_dot_notation(d, dotted_key, value) ==
  set_by_keys(d, Split(dotted_key, "."), value)

\* updates is a dict in the order of its items: a sequence of <<key, value>>
\* apply_dot_notation_updates, from the i-th item on
RECURSIVE apply_dot_notation_updates(_, _, _)
apply_dot_notation_updates(target, updates, i) ==
  IF i > Len(updates) THEN target
  ELSE apply_dot_notation_updates(
         IF Contains(updates[i][1], ".")
         THEN set_by_dot_notation(target, updates[i][1], updates[i][2])
         ELSE with_key(target, updates[i][1], updates[i][2]),
         updates, i + 1)

\* merge_dict on the entries of an object; the added and updated keys,
\* which are only printed, are left out
RECURSIVE merge_entries(_, _)
merge_entries(target, updates) ==
  [k \in DOMAIN target \cup DOMAIN updates |->
     IF k \notin DOMAIN updates THEN target[k]
     ELSE IF updates[k].kind = "dict"
       THEN Obj(merge_entries(child(target, k), updates[k].entries))
     ELSE updates[k]]

\* merge_dict(trans, nested_updates), from the i-th item on
RECURSIVE merge_dict(_, _, _)
merge_dict(target, updates, i) ==
  IF i > Len(updates) THEN target
  ELSE merge_dict(
         IF updates[i][2].kind = "dict"
         THEN with_key(target, updates[i][1],
                       Obj(merge_entries(child(target, updates[i][1]),
                                         updates[i][2].entries)))
         ELSE with_key(target, updates[i][1], updates[i][2]),
         updates, i + 1)

\* k in current: a key of an object, a substring of a string
has_key(current, k) ==
  IF current.kind = "dict" THEN k \in DOMAIN current.entries
  ELSE Contains(current.text, k)

\* the loop  for k in keys[:-1]  of verify_transaction: "ok", "error" when
\* the path does not exist, "raise" when current[k] is taken of a string
RECURSIVE verify_path(_, _)
verify_path(keys, current) ==
  IF keys = <<>> THEN "ok"
  ELSE IF ~has_key(current, keys[1]) THEN "error"
  ELSE IF current.kind = "str" THEN "raise"
  ELSE verify_path(Tail(keys), current.entries[keys[1]])

verify_key(key, en_data) ==
  IF Contains(key, ".")
  THEN verify_path(SubSeq(Split(key, "."), 1, Len(Split(key, ".")) - 1), Obj(en_data))
  ELSE IF key \in DOMAIN en_data THEN "ok" ELSE "error"

Languages == {"de", "es", "fr"}

\* verify_transaction on the items of the transaction: "raise" when a key
\* raises, "errors" when the list of errors is not empty, "ok" otherwise
verify_transaction(items, en_data) ==
  IF \E n \in DOMAIN items : \E i \in DOMAIN items[n][2] :
       verify_key(items[n][2][i][1], en_data) = "raise"
    THEN "raise"
  ELSE IF \E n \in DOMAIN items :
            \/ items[n][1] \notin Languages
            \/ \E i \in DOMAIN items[n][2] :
                 verify_key(items[n][2][i][1], en_data) = "error"
    THEN "errors"
  ELSE "ok"

\* a file is None when load_json returns None for it, Some(entries) for a
\* JSON object; "not trans" holds for None and for the empty object
not_loaded(file) == file = None \/ file[1] = <<>>

\* {k: v for k, v in updates.items() if '.' in k} and the rest
dot_updates(updates) == SelectSeq(updates, LAMBDA u : Contains(u[1], "."))
nested_updates(updates) == SelectSeq(updates, LAMBDA u : ~Contains(u[1], "."))

\* trans as update_translation_file saves it
updated_entries(trans, updates) ==
  merge_dict(apply_dot_notation_updates(trans, dot_updates(updates), 1),
             nested_updates(updates), 1)

\* the state of update_translations while the other programs run
UpdateIdle ==
  /\ transaction = [valid |-> FALSE, items |-> <<>>]
  /\ en_reference = None
  /\ lang_files = [l \in Languages |-> None]
  /\ saved = {}
  /\ lang_index = 0

(***************************************************************************)
(* The run of main()                                                        *)
(***************************************************************************)
NotStripped == "?"

Init ==
  /\ \E run \in Runs :
       /\ directory = run.directory
       /\ registry_file = run.registry_file
       /\ line_tolerance = run.line_tolerance
  /\ pc = "start"
  /\ false_positives = <<>>
  /\ file_index = 1
  /\ lines = <<>>
  /\ line_index = 0
  /\ detections = <<>>
  /\ all_detections = <<>>
  /\ report = ""
  /\ traceback = FALSE
  /\ exit_status = None
  /\ line = ""
  /\ stripped = NotStripped
  /\ I18nIdle
  /\ UpdateIdle

\* detector = TestAntiPatternDetector(false_positives_file, line_tolerance)
Construct ==
  /\ pc = "start"
  /\ false_positives' = load_false_positives(registry_file)
  /\ pc' = "constructed"
  /\ UNCHANGED <<directory, registry_file, line_tolerance, file_index, lines,
                 line_index, detections, all_detections, report, traceback,
                 exit_status, line, stripped>>
  /\ UNCHANGED i18n_vars
  /\ UNCHANGED update_vars

\* if not os.path.exists(scan_dir): sys.exit(1)
DirectoryMissing ==
  /\ pc = "constructed"
  /\ ~directory.exists
  /\ exit_status' = Some(1)
  /\ pc' = "exited"
  /\ UNCHANGED <<directory, registry_file, line_tolerance, false_positives,
                 file_index, lines, line_index, detections, all_detections,
                 report, traceback, line, stripped>>
  /\ UNCHANGED i18n_vars
  /\ UNCHANGED update_vars

\* detections = detector.scan_directory(scan_dir)
BeginScan ==
  /\ pc = "constructed"
  /\ directory.exists
  /\ file_index' = 1
  /\ all_detections' = <<>>
  /\ pc' = "walk"
  /\ UNCHANGED <<directory, registry_file, line_tolerance, false_positives,
                 lines, line_index, detections, report, traceback, exit_status,
                 line, stripped>>
  /\ UNCHANGED i18n_vars
  /\ UNCHANGED update_vars

CurrentPath == directory.files[file_index]

\* every Detection of one line after is_false_positive has been asked
\* about it; is_false_positive opens detection.filename itself
checked_all(registry, tolerance, found) ==
  [k \in 1..Len(found) |->
     checked(registry, tolerance, found[k], ReadLines(found[k].filename))]

\* a file whose name file_pattern does not match is passed over
SkipFile ==
  /\ pc = "walk"
  /\ file_index <= Len(directory.files)
  /\ ~ReMatch(file_pattern, BaseName(CurrentPath))
  /\ file_index' = file_index + 1
  /\ UNCHANGED <<pc, directory, registry_file, line_tolerance, false_positives,
                 lines, line_index, detections, all_detections, report,
                 traceback, exit_status, line, stripped>>
  /\ UNCHANGED i18n_vars
  /\ UNCHANGED update_vars

\* OpenFails with the walk ended by the failure: the variant under which
\* the property of C15 has to fail
OpenFailsEndsWalk ==
  /\ pc = "walk"
  /\ file_index <= Len(directory.files)
  /\ ReMatch(file_pattern, BaseName(CurrentPath))
  /\ ReadLines(CurrentPath) = None
  /\ file_index' = Len(directory.files) + 1
  /\ UNCHANGED <<pc, directory, registry_file, line_tolerance, false_positives,
                 lines, line_index, detections, all_detections, report,
                 traceback, exit_status, line, stripped>>
  /\ UNCHANGED i18n_vars
  /\ UNCHANGED update_vars

\* detect_patterns_in_file: open raises, the file contributes nothing
OpenFails ==
  /\ pc = "walk"
  /\ file_index <= Len(directory.files)
  /\ ReMatch(file_pattern, BaseName(CurrentPath))
  /\ ReadLines(CurrentPath) = None
  /\ file_index' = file_index + 1
  /\ UNCHANGED <<pc, directory, registry_file, line_tolerance, false_positives,
                 lines, line_index, detections, all_detections, report,
                 traceback, exit_status, line, stripped>>
  /\ UNCHANGED i18n_vars
  /\ UNCHANGED update_vars

\* detect_patterns_in_file: lines = f.readlines()
OpenFile ==
  /\ pc = "walk"
  /\ file_index <= Len(directory.files)
  /\ ReMatch(file_pattern, BaseName(CurrentPath))
  /\ ReadLines(CurrentPath) # None
  /\ lines' = ReadLines(CurrentPath)[1]
  /\ line_index' = 0
  /\ detections' = <<>>
  /\ pc' = "lines"
  /\ UNCHANGED <<directory, registry_file, line_tolerance, false_positives,
                 file_index, all_detections, report, traceback, exit_status,
                 line, stripped>>
  /\ UNCHANGED i18n_vars
  /\ UNCHANGED update_vars

\* one iteration of  for line_index, line in enumerate(lines): every rule
\* is tried on the stripped line and every Detection is looked up in the
\* registry
ScanLine ==
  /\ pc = "lines"
  /\ line_index < Len(lines)
  /\ detections' =
       detections \o checked_all(false_positives, line_tolerance,
                                 LineMatchesOf(CurrentPath, line_index))
  /\ line_index' = line_index + 1
  /\ UNCHANGED <<pc, directory, registry_file, line_tolerance, false_positives,
                 file_index, lines, all_detections, report, traceback,
                 exit_status, line, stripped>>
  /\ UNCHANGED i18n_vars
  /\ UNCHANGED update_vars

\* DetectMultiline with the Detections of the whole-file scanner handed to
\* is_false_positive before they are appended: the variant under which the
\* property of C13 has to fail
DetectMultilineChecked ==
  /\ pc = "lines"
  /\ line_index = Len(lines)
  /\ all_detections' =
       all_detections \o detections
         \o checked_all(false_positives, line_tolerance, MultilineMatchesOf(CurrentPath))
  /\ detections' = <<>>
  /\ file_index' = file_index + 1
  /\ pc' = "walk"
  /\ UNCHANGED <<directory, registry_file, line_tolerance, false_positives,
                 lines, line_index, report, traceback, exit_status, line, stripped>>
  /\ UNCHANGED i18n_vars
  /\ UNCHANGED update_vars

\* detections.extend(self.detect_multiline_patterns(filepath, lines)), then
\* all_detections.extend(detections) in scan_directory
DetectMultiline ==
  /\ pc = "lines"
  /\ line_index = Len(lines)
  /\ all_detections' = all_detections \o detections \o MultilineMatchesOf(CurrentPath)
  /\ detections' = <<>>
  /\ file_index' = file_index + 1
  /\ pc' = "walk"
  /\ UNCHANGED <<directory, registry_file, line_tolerance, false_positives,
                 lines, line_index, report, traceback, exit_status, line, stripped>>
  /\ UNCHANGED i18n_vars
  /\ UNCHANGED update_vars

\* detector.print_detections(detections): an exception it raises ends the
\* process with a traceback and the exit status 1
PrintDetections ==
  /\ pc = "walk"
  /\ file_index > Len(directory.files)
  /\ \E r \in {print_detections(all_detections)} :
       /\ report' = r.report
       /\ traceback' = r.raised
       /\ pc' = IF r.raised THEN "exited" ELSE "printed"
       /\ exit_status' = IF r.raised THEN Some(1) ELSE None
  /\ UNCHANGED <<directory, registry_file, line_tolerance, false_positives,
                 file_index, lines, line_index, detections, all_detections,
                 line, stripped>>
  /\ UNCHANGED i18n_vars
  /\ UNCHANGED update_vars

\* the count of high-severity true positives and sys.exit
Exit ==
  /\ pc = "printed"
  /\ IF severity_raises(true_positives(all_detections))
     THEN traceback' = TRUE /\ exit_status' = Some(1)
     ELSE /\ traceback' = FALSE
          /\ exit_status' =
               IF high_severity_count(all_detections) > 0 THEN Some(1) ELSE Some(0)
  /\ pc' = "exited"
  /\ UNCHANGED <<directory, registry_file, line_tolerance, false_positives,
                 file_index, lines, line_index, detections, all_detections,
                 report, line, stripped>>
  /\ UNCHANGED i18n_vars
  /\ UNCHANGED update_vars

Next ==
  \/ Construct
  \/ DirectoryMissing
  \/ BeginScan
  \/ SkipFile
  \/ OpenFails
  \/ OpenFile
  \/ ScanLine
  \/ DetectMultiline
  \/ PrintDetections
  \/ Exit

Spec == Init /\ [][Next]_vars

(***************************************************************************)
(* strip_comments applied to one line                                       *)
(***************************************************************************)
MaxLen == 5
MaxInner == 4
Alphabet == {"a", "/", "*", "\\"} \cup QuoteChars

\* the texts of up to n characters of the set S
RECURSIVE Strs(_, _)
Strs(S, n) ==
  IF n = 0 THEN {""}
  ELSE {p \o c : p \in Strs(S, n - 1), c \in S \cup {""}}

\* lines with a quoted text of up to MaxInner characters, with or without
\* a word before it, a word after it and a line comment at the end
QuotedLines ==
  {lead \o q \o body \o q \o word \o comment :
     lead \in {"", "a"}, q \in QuoteChars, body \in Strs(Alphabet \ {"a"}, MaxInner),
     word \in {"", "a"}, comment \in {"", "//a"}}

\* the lines strip_comments is applied to: every text of up to MaxLen
\* characters of the alphabet, and the quoted lines
StripInit ==
  /\ (line \in Strs(Alphabet, MaxLen) \/ line \in QuotedLines)
  /\ stripped = NotStripped
  /\ I18nIdle
  /\ UpdateIdle
  /\ pc = "strip"
  /\ directory = MissingDirectory
  /\ registry_file = Document(<<>>)
  /\ line_tolerance = DefaultLineTolerance
  /\ false_positives = <<>>
  /\ file_index = 1
  /\ lines = <<>>
  /\ line_index = 0
  /\ detections = <<>>
  /\ all_detections = <<>>
  /\ report = ""
  /\ traceback = FALSE
  /\ exit_status = None

StripLine ==
  /\ stripped = NotStripped
  /\ stripped' = strip_comments(line)
  /\ UNCHANGED <<pc, directory, registry_file, line_tolerance, false_positives,
                 file_index, lines, line_index, detections, all_detections,
                 report, traceback, exit_status, line>>
  /\ UNCHANGED i18n_vars
  /\ UNCHANGED update_vars

SpecStrip == StripInit /\ [][StripLine]_vars

(***************************************************************************)
(* One line of a file with a context-sensitive assertion, scanned alone    *)
(***************************************************************************)
\* how many lines may stand between a conditional's header and the
\* assertion, and between the assertion and the closing brace
MaxGap == 10
MaxAfter == 9

FBlock == "test/suites/block.test.js"

ItLine == "it('runs', () => {\n"
TestLine == "test('runs', () => {\n"
IfLine == "  if (app) {\n"
CloseLine == "  }\n"
EndLine == "});\n"
CallLine == "    app.run();\n"

\* one assertion line for each way the five classifiers can answer
DefinedLine == "    expect(app).toBeDefined();\n"
MarkerLine == "    expect(STO_DATA.commands).toBeDefined();\n"
InstanceLine == "    expect(window.app).toBeInstanceOf(Object);\n"
ObjectLine == "    expect(typeof params).toBe('object');\n"
FunctionLine == "    expect(typeof app.run).toBe('function');\n"
AnythingLine == "    expect(spy).toHaveBeenCalledWith(expect.anything());\n"
DefaultLine == "    expect(cfg).toEqual({ default: expect.anything() });\n"

AssertionLines ==
  {DefinedLine, MarkerLine, InstanceLine, ObjectLine, FunctionLine,
   AnythingLine, DefaultLine}

\* the rule an assertion line is written for
RuleOf(assertion) ==
  CASE assertion \in {DefinedLine, MarkerLine} -> "Weak toBeDefined Assertion"
    [] assertion = InstanceLine -> "Weak Instanceof Fallback"
    [] assertion = ObjectLine -> "Weak Object Type Check"
    [] assertion = FunctionLine -> "Function Existence Test"
    [] OTHER -> "Generic expect.anything() Overuse"

Calls(n) == [k \in 1..n |-> CallLine]

\* a test whose assertion stands in a conditional, gap lines after its
\* header and after lines before its closing brace
BlockLines(header, gap, assertion, after) ==
  <<header, IfLine>> \o Calls(gap) \o <<assertion>> \o Calls(after)
    \o <<CloseLine, EndLine>>

\* the same test without the conditional
PlainLines(header, assertion, after) ==
  <<header, assertion>> \o Calls(after) \o <<EndLine>>

\* the files and the index of the line that is scanned
ClassifyInputs ==
  {[lines |-> BlockLines(h, g, a, n), line_index |-> g + 2] :
     h \in {ItLine, TestLine}, g \in 0..MaxGap, a \in AssertionLines, n \in 0..MaxAfter}
    \cup
  {[lines |-> PlainLines(h, a, n), line_index |-> 1] :
     h \in {ItLine, TestLine}, a \in AssertionLines, n \in 0..MaxAfter}

ClassifyInit ==
  /\ \E input \in ClassifyInputs :
       /\ lines = input.lines
       /\ line_index = input.line_index
  /\ pc = "classify"
  /\ directory = Directory(<<FBlock>>)
  /\ registry_file = Document(<<>>)
  /\ line_tolerance = DefaultLineTolerance
  /\ false_positives = <<>>
  /\ file_index = 1
  /\ detections = <<>>
  /\ all_detections = <<>>
  /\ report = ""
  /\ traceback = FALSE
  /\ exit_status = None
  /\ line = ""
  /\ stripped = NotStripped
  /\ I18nIdle
  /\ UpdateIdle

\* what is_false_positive makes of the Detections of a line of a file
\* whose lines are given
checked_in(registry, tolerance, found, file_lines) ==
  [k \in 1..Len(found) |-> checked(registry, tolerance, found[k], Some(file_lines))]

\* the iteration of  for line_index, line in enumerate(lines)  for the
\* line with the assertion
ClassifyLine ==
  /\ pc = "classify"
  /\ detections' =
       checked_in(false_positives, line_tolerance,
                  line_matches(anti_patterns, CurrentPath, lines, line_index),
                  lines)
  /\ pc' = "classified"
  /\ UNCHANGED <<directory, registry_file, line_tolerance, false_positives,
                 file_index, lines, line_index, all_detections, report,
                 traceback, exit_status, line, stripped>>
  /\ UNCHANGED i18n_vars
  /\ UNCHANGED update_vars

SpecClassify == ClassifyInit /\ [][ClassifyLine]_vars

(***************************************************************************)
(* One line scanned with a registry entry written for it                   *)
(***************************************************************************)
\* how many words the two snippets of a pair have beyond the ones of the
\* assertion itself
MaxWords == 7

WordPool ==
  <<"alpha", "bravo", "delta", "gamma", "kappa", "lambda", "omega", "sigma",
    "theta", "zeta", "omicron", "upsilon">>

\* the words from..to of the pool, each followed by a comma but the last
RECURSIVE Arguments(_, _)
Arguments(from, to) ==
  IF from > to THEN ""
  ELSE IF from = to THEN WordPool[from]
  ELSE WordPool[from] \o ", " \o Arguments(from + 1, to)

Both(a, b) == IF a = "" THEN b ELSE IF b = "" THEN a ELSE a \o ", " \o b

\* a trivially true assertion followed by a call with the given arguments
TruthyWith(arguments) == "expect(true).toBeTruthy(); check(" \o arguments \o ");"

\* how many words the two snippets share, how many only the snippet of the
\* entry has and how many only the line has
WordCounts ==
  {t \in (0..MaxWords) \X (0..MaxWords) \X (0..MaxWords) :
     t[1] + t[2] + t[3] <= MaxWords}

\* the pairs <<snippet of the entry, code of the line>>
WordPairs ==
  {<<TruthyWith(Both(Arguments(1, t[1]), Arguments(t[1] + 1, t[1] + t[2]))),
     TruthyWith(Both(Arguments(t[1] + t[2] + 1, t[1] + t[2] + t[3]),
                     Arguments(1, t[1])))>> : t \in WordCounts}

Targets == {"foo", "app.foo", "window.app.foo", "bar", "app.bar", "app"}

DefinedOf(target) == "expect(" \o target \o ").toBeDefined()"

TargetPairs == {<<DefinedOf(t), DefinedOf(u) \o ";">> : t, u \in Targets}

\* the entry a reviewer has written for the second line of the file
SnippetEntry(pattern_name, code_snippet) ==
  Entry(FBlock, "runs", <<2, 2>>, pattern_name, code_snippet,
        "reviewed by hand", "medium")

SnippetInputs ==
  {[rule |-> "Generic toBeTruthy Fallback", snippet |-> p[1], code |-> p[2]] :
     p \in WordPairs}
    \cup
  {[rule |-> "Weak toBeDefined Assertion", snippet |-> p[1], code |-> p[2]] :
     p \in TargetPairs}

SnippetInit ==
  /\ \E input \in SnippetInputs :
       /\ lines = <<TestLine, "  " \o input.code \o "\n", EndLine>>
       /\ registry_file = Document(<<SnippetEntry(input.rule, input.snippet)>>)
       /\ false_positives =
            load_false_positives(Document(<<SnippetEntry(input.rule, input.snippet)>>))
  /\ line_index = 1
  /\ pc = "classify"
  /\ directory = Directory(<<FBlock>>)
  /\ line_tolerance = DefaultLineTolerance
  /\ file_index = 1
  /\ detections = <<>>
  /\ all_detections = <<>>
  /\ report = ""
  /\ traceback = FALSE
  /\ exit_status = None
  /\ line = ""
  /\ stripped = NotStripped
  /\ I18nIdle
  /\ UpdateIdle

SpecSnippet == SnippetInit /\ [][ClassifyLine]_vars

(***************************************************************************)
(* A run of check_duplicates                                                *)
(***************************************************************************)
I18nInit ==
  /\ i18n_dir \in I18nDirs
  /\ case_sensitive \in BOOLEAN
  /\ en_files \in [I18nDirs -> EnFiles]
  /\ return_code = None
  /\ reported = <<>>
  /\ pc = "i18n"
  /\ directory = MissingDirectory
  /\ registry_file = Document(<<>>)
  /\ line_tolerance = DefaultLineTolerance
  /\ false_positives = <<>>
  /\ file_index = 1
  /\ lines = <<>>
  /\ line_index = 0
  /\ detections = <<>>
  /\ all_detections = <<>>
  /\ report = ""
  /\ traceback = FALSE
  /\ exit_status = None
  /\ line = ""
  /\ stripped = NotStripped
  /\ UpdateIdle

\* return check_duplicates(args.i18n_dir, args.case_sensitive)
CheckDuplicates ==
  /\ pc = "i18n"
  /\ return_code = None
  /\ \E r \in {check_duplicates(i18n_dir, case_sensitive, en_files)} :
       /\ return_code' = Some(r.return_code)
       /\ reported' = r.reported
  /\ UNCHANGED <<pc, directory, registry_file, line_tolerance, false_positives,
                 file_index, lines, line_index, detections, all_detections,
                 report, traceback, exit_status, line, stripped>>
  /\ UNCHANGED <<i18n_dir, case_sensitive, en_files>>
  /\ UNCHANGED update_vars

SpecI18n == I18nInit /\ [][CheckDuplicates]_vars

(***************************************************************************)
(* One line scanned alone: a conditional closed before the assertion, and  *)
(* the look-ahead windows of the classifiers                               *)
(***************************************************************************)
\* how many lines after the assertion the line that legitimises it may stand
MaxAhead == 11

\* how many lines may follow that line before the end of the test
MaxTrail == 2

StepLine == "    prepare();\n"

Steps(n) == [k \in 1..n |-> StepLine]

\* assertions that only their look-ahead window can legitimise, and the line
\* the window looks for
WindowLine == "    expect(window.app).toBeDefined();\n"
ValueLine == "    expect(app.mode).toBe('space');\n"
ManagerLine == "    expect(keyManager).toBeDefined();\n"
UsageLine == "    keyManager.load();\n"
ResultLine == "    expect(typeof result).toBe('object');\n"
PropertyLine == "    expect(result).toHaveProperty('mode');\n"

\* the follow-up line of each assertion with a look-ahead window
FollowUps ==
  {<<WindowLine, ValueLine>>, <<ManagerLine, UsageLine>>,
   <<ResultLine, PropertyLine>>, <<FunctionLine, CallLine>>}

\* the rule an assertion line of this section is written for
WindowRuleOf(assertion) ==
  IF assertion \in {WindowLine, ManagerLine} THEN "Weak toBeDefined Assertion"
  ELSE IF assertion = ResultLine THEN "Weak Object Type Check"
  ELSE RuleOf(assertion)

\* a test whose assertion follows a conditional that is opened and closed
\* before it: gap lines between the closing brace and the assertion, after
\* lines between the assertion and the end of the test
ClosedLines(header, gap, assertion, after) ==
  <<header, IfLine, CallLine, CloseLine>> \o Steps(gap) \o <<assertion>>
    \o Steps(after) \o <<EndLine>>

\* a test whose assertion is followed by its follow-up line on the k-th line
\* after it
AheadLines(assertion, k, follow, trail) ==
  <<TestLine, assertion>> \o Steps(k - 1) \o <<follow>> \o Steps(trail)
    \o <<EndLine>>

\* the same test without the follow-up line
AloneLines(assertion, n) == <<TestLine, assertion>> \o Steps(n) \o <<EndLine>>

ContextInputs ==
  {[lines |-> ClosedLines(h, g, a, n), line_index |-> g + 4] :
     h \in {ItLine, TestLine}, g \in 0..MaxGap,
     a \in {DefinedLine, MarkerLine, InstanceLine, ObjectLine, FunctionLine,
            ResultLine},
     n \in 0..MaxAfter}
    \cup
  {[lines |-> AheadLines(p[1], k, p[2], t), line_index |-> 1] :
     p \in FollowUps, k \in 1..MaxAhead, t \in 0..MaxTrail}
    \cup
  {[lines |-> AloneLines(p[1], n), line_index |-> 1] :
     p \in FollowUps, n \in 0..MaxAhead}

ContextInit ==
  /\ \E input \in ContextInputs :
       /\ lines = input.lines
       /\ line_index = input.line_index
  /\ pc = "classify"
  /\ directory = Directory(<<FBlock>>)
  /\ registry_file = Document(<<>>)
  /\ line_tolerance = DefaultLineTolerance
  /\ false_positives = <<>>
  /\ file_index = 1
  /\ detections = <<>>
  /\ all_detections = <<>>
  /\ report = ""
  /\ traceback = FALSE
  /\ exit_status = None
  /\ line = ""
  /\ stripped = NotStripped
  /\ I18nIdle
  /\ UpdateIdle

SpecContext == ContextInit /\ [][ClassifyLine]_vars

(***************************************************************************)
(* strip_comments applied to a line with a block comment closed on it      *)
(***************************************************************************)
\* the length of the body of the block comment
MaxBody == 3

\* the bodies a block comment can have: they do not hold its closing delimiter
CommentBodies == {c \in Strs(Alphabet, MaxBody) : ~Contains(c, "*/")}

\* lines with a block comment, with or without a word before and after it
CommentLines ==
  {lead \o "/*" \o c \o "*/" \o word :
     lead \in {"", "a"}, c \in CommentBodies, word \in {"", "a"}}

BlockCommentInit ==
  /\ line \in CommentLines
  /\ stripped = NotStripped
  /\ I18nIdle
  /\ UpdateIdle
  /\ pc = "strip"
  /\ directory = MissingDirectory
  /\ registry_file = Document(<<>>)
  /\ line_tolerance = DefaultLineTolerance
  /\ false_positives = <<>>
  /\ file_index = 1
  /\ lines = <<>>
  /\ line_index = 0
  /\ detections = <<>>
  /\ all_detections = <<>>
  /\ report = ""
  /\ traceback = FALSE
  /\ exit_status = None

SpecBlockComment == BlockCommentInit /\ [][StripLine]_vars

(***************************************************************************)
(* One line scanned with a registry entry that names its test otherwise    *)
(***************************************************************************)
\* how many words a name has at most
MaxNameWords == 5

WordPoolCaps ==
  <<"Alpha", "Bravo", "Delta", "Gamma", "Kappa", "Lambda", "Omega", "Sigma",
    "Theta", "Zeta", "Omicron", "Upsilon">>

\* the words from..to of a pool, with a space between them
RECURSIVE NameOf(_, _, _)
NameOf(pool, from, to) ==
  IF from > to THEN ""
  ELSE IF from = to THEN pool[from]
  ELSE pool[from] \o " " \o NameOf(pool, from + 1, to)

Spaced(a, b) == IF a = "" THEN b ELSE IF b = "" THEN a ELSE a \o " " \o b

\* how many words the two names share, how many only the recorded name has
\* and how many only the name of the test has; no name is empty
NameCounts ==
  {t \in (0..MaxNameWords) \X (0..MaxNameWords) \X (0..MaxNameWords) :
     /\ t[1] + t[2] <= MaxNameWords /\ t[1] + t[2] >= 1
     /\ t[1] + t[3] <= MaxNameWords /\ t[1] + t[3] >= 1}

\* the name the entry records: the shared words, then its own
RecordedName(pool, t) ==
  Spaced(NameOf(pool, 1, t[1]), NameOf(pool, t[1] + 1, t[1] + t[2]))

\* the name of the test in the file: its own words, then the shared ones
TestName(t) ==
  Spaced(NameOf(WordPool, t[1] + t[2] + 1, t[1] + t[2] + t[3]),
         NameOf(WordPool, 1, t[1]))

TestHeader(name) == "test('" \o name \o "', () => {\n"

TruthyLine == "  expect(true).toBeTruthy();\n"

\* the entry a reviewer has written for the second line of the file, under
\* the name function
NamedEntry(function) ==
  Entry(FBlock, function, <<2, 2>>, "Generic toBeTruthy Fallback",
        "expect(true).toBeTruthy();", "reviewed by hand", "medium")

FunctionInit ==
  /\ \E t \in NameCounts : \E pool \in {WordPool, WordPoolCaps} :
       /\ lines = <<TestHeader(TestName(t)), TruthyLine, EndLine>>
       /\ registry_file = Document(<<NamedEntry(RecordedName(pool, t))>>)
       /\ false_positives =
            load_false_positives(Document(<<NamedEntry(RecordedName(pool, t))>>))
  /\ line_index = 1
  /\ pc = "classify"
  /\ directory = Directory(<<FBlock>>)
  /\ line_tolerance = DefaultLineTolerance
  /\ file_index = 1
  /\ detections = <<>>
  /\ all_detections = <<>>
  /\ report = ""
  /\ traceback = FALSE
  /\ exit_status = None
  /\ line = ""
  /\ stripped = NotStripped
  /\ I18nIdle
  /\ UpdateIdle

SpecFunction == FunctionInit /\ [][ClassifyLine]_vars

(***************************************************************************)
(* add_false_positive on a constructed detector                            *)
(***************************************************************************)
\* the characters re.escape puts a backslash before
EscapedChars ==
  {"(", ")", "[", "]", "{", "}", "?", "*", "+", "-", "|", "^", "$", "\\", ".",
   "&", "~", "#", " ", "\t", "\n", "\r"}

\* re.escape(s)
RECURSIVE re_escape(_)
re_escape(s) ==
  IF s = "" THEN ""
  ELSE (IF SubSeq(s, 1, 1) \in EscapedChars THEN "\\" ELSE "")
         \o SubSeq(s, 1, 1) \o re_escape(SubSeq(s, 2, Len(s)))

\* new_fp, the entry add_false_positive appends
new_fp(found, why, added_by) ==
  [pattern_name |-> found.pattern_name,
   file_pattern |-> ".*\\.test\\.js$",
   line_pattern |-> re_escape(Strip(found.code_line)),
   reason |-> why,
   added_by |-> added_by,
   date_added |-> "2024-01-01"]

\* a registry file that holds JSON without a list under "false_positives"
OtherJson == [state |-> "other", false_positives |-> <<>>]

\* data after "Load existing data": the default for a file that is absent
\* or cannot be parsed, what json.load returns otherwise
loaded_data(document) ==
  IF document.state \in {"absent", "unparsable"} THEN Document(<<>>)
  ELSE document

\* data["false_positives"].append(new_fp) raises when data has no such list
append_raises(document) == loaded_data(document).state = "other"

\* the file after json.dump(data, f, indent=2)
dumped(document, entry) ==
  Document(Append(loaded_data(document).false_positives, entry))

\* the Detections add_false_positive is called with, and the reasons
AddedDetections ==
  {Detection(FT, 2, "Generic toBeTruthy Fallback", "expect(true).toBeTruthy();"),
   Detection(FW, 2, "Window Mock Without Integration Testing", "window.foo = {};"),
   Detection(FBlock, 5, "Weak toBeDefined Assertion", "expect(app).toBeDefined();")}

AddedReasons == {"smoke test kept on purpose", "mock is the unit under test"}

\* the registry files add_false_positive finds
AddRegistries ==
  PlainRegistries \cup PartialRegistries \cup {OtherJson}
    \cup {Document(<<en>>) : en \in RivalEntries}
    \cup {Document(es) : es \in SeqsUpTo(RivalEntries, MaxFindings) \ {<<>>}}

AddInit ==
  /\ registry_file \in AddRegistries
  /\ pc = "start"
  /\ directory = MissingDirectory
  /\ line_tolerance = DefaultLineTolerance
  /\ false_positives = <<>>
  /\ file_index = 1
  /\ lines = <<>>
  /\ line_index = 0
  /\ detections = <<>>
  /\ all_detections = <<>>
  /\ report = ""
  /\ traceback = FALSE
  /\ exit_status = None
  /\ line = ""
  /\ stripped = NotStripped
  /\ I18nIdle
  /\ UpdateIdle

\* detector.add_false_positive(detection, reason): the file is rewritten
\* with the entry appended; open(..., 'w') may fail, which is caught and
\* leaves the file as it is; the append raises on JSON of another shape
AddFalsePositive ==
  /\ pc = "constructed"
  /\ \E found \in AddedDetections, why \in AddedReasons, writable \in BOOLEAN :
       /\ detections' = <<found>>
       /\ report' = IF append_raises(registry_file) THEN ""
                    ELSE IF writable THEN "Added false positive pattern for: " \o found.pattern_name
                    ELSE "Error saving false positive"
       /\ traceback' = append_raises(registry_file)
       /\ registry_file' =
            IF append_raises(registry_file) \/ ~writable THEN registry_file
            ELSE dumped(registry_file, new_fp(found, why, "user"))
  /\ pc' = "added"
  /\ UNCHANGED <<directory, line_tolerance, false_positives, file_index, lines,
                 line_index, all_detections, exit_status, line, stripped>>
  /\ UNCHANGED i18n_vars
  /\ UNCHANGED update_vars

SpecAdd == AddInit /\ [][Construct \/ AddFalsePositive]_vars

(***************************************************************************)
(* One line scanned with a registry entry written for it, the header of    *)
(* its test some lines above it, the file read again or not                *)
(***************************************************************************)
\* how many lines above the assertion the header of its test stands at most
MaxDepth == 21

DescribeLine == "describe('runs', () => {\n"
SetupLine == "beforeEach(() => {\n"

\* the headers extract_function_name knows, and the name it returns for each
HeaderLines == {ItLine, TestLine, DescribeLine, SetupLine}

RecordedFor(header) == IF header = SetupLine THEN "beforeEach setup" ELSE "runs"

\* the entry a reviewer has written for line n of the file
DepthEntry(function, n) ==
  Entry(FBlock, function, <<n, n>>, "Generic toBeTruthy Fallback",
        "expect(true).toBeTruthy();", "reviewed by hand", "medium")

\* a file with the header depth lines above the assertion, and a file of
\* depth lines without any header before the assertion
DepthInputs ==
  {[lines |-> <<h>> \o Steps(d - 1) \o <<TruthyLine, EndLine>>,
    line_index |-> d, function |-> RecordedFor(h)] :
     h \in HeaderLines, d \in 1..MaxDepth}
    \cup
  {[lines |-> Steps(d) \o <<TruthyLine, EndLine>>,
    line_index |-> d, function |-> "runs"] : d \in 0..MaxDepth}

\* the file of the scan, and whether open succeeds when is_false_positive
\* reads it again
ScannedFile(readable) == [exists |-> TRUE, files |-> <<FBlock>>, readable |-> readable]

DepthInit ==
  /\ \E input \in DepthInputs :
       /\ lines = input.lines
       /\ line_index = input.line_index
       /\ registry_file =
            Document(<<DepthEntry(input.function, input.line_index + 1)>>)
       /\ false_positives =
            load_false_positives(
              Document(<<DepthEntry(input.function, input.line_index + 1)>>))
  /\ directory \in {ScannedFile(TRUE), ScannedFile(FALSE)}
  /\ pc = "classify"
  /\ line_tolerance = DefaultLineTolerance
  /\ file_index = 1
  /\ detections = <<>>
  /\ all_detections = <<>>
  /\ report = ""
  /\ traceback = FALSE
  /\ exit_status = None
  /\ line = ""
  /\ stripped = NotStripped
  /\ I18nIdle
  /\ UpdateIdle

\* what is_false_positive makes of the Detections of a line, opened being
\* what its own open and readlines give
checked_from(registry, tolerance, found, opened) ==
  [k \in 1..Len(found) |-> checked(registry, tolerance, found[k], opened)]

\* the iteration of  for line_index, line in enumerate(lines)  for the line
\* with the assertion, is_false_positive opening the file again
RereadLine ==
  /\ pc = "classify"
  /\ detections' =
       checked_from(false_positives, line_tolerance,
                    line_matches(anti_patterns, CurrentPath, lines, line_index),
                    IF directory.readable THEN Some(lines) ELSE None)
  /\ pc' = "classified"
  /\ UNCHANGED <<directory, registry_file, line_tolerance, false_positives,
                 file_index, lines, line_index, all_detections, report,
                 traceback, exit_status, line, stripped>>
  /\ UNCHANGED i18n_vars
  /\ UNCHANGED update_vars

SpecDepth == DepthInit /\ [][RereadLine]_vars

(***************************************************************************)
(* One line scanned with registry entries whose line_range is of any length *)
(***************************************************************************)
\* expected_start, expected_end = fp.line_range  raises ValueError unless
\* the list holds exactly two values
unpack_raises(line_range) == Len(line_range) # 2

\* the loop of is_false_positive from the k-th entry on: TRUE when it ends
\* in the exception of the unpacking, which is reached for an entry that
\* has passed the checks of rule, file and function, before any entry
\* matches
RECURSIVE fp_loop_raises(_, _, _, _, _)
fp_loop_raises(registry, k, detection, actual_function, tolerance) ==
  IF k > Len(registry) THEN FALSE
  ELSE IF \/ registry[k].pattern_name # detection.pattern_name
          \/ ~paths_match(detection.filename, registry[k].file)
          \/ ~fuzzy_match_function(actual_function, registry[k].function)
    THEN fp_loop_raises(registry, k + 1, detection, actual_function, tolerance)
  ELSE IF unpack_raises(registry[k].line_range) THEN TRUE
  ELSE IF fp_matches(registry[k], detection, actual_function, tolerance) THEN FALSE
  ELSE fp_loop_raises(registry, k + 1, detection, actual_function, tolerance)

\* is_false_positive raises for one of the Detections of a line
is_false_positive_raises(registry, tolerance, found, file_lines) ==
  \E k \in 1..Len(found) :
    fp_loop_raises(registry, 1, found[k],
                   extract_function_name(file_lines, found[k].line_number - 1),
                   tolerance)

\* the entry for the second line of the file, with the line_range, the
\* rule, the file and the function given
ShapedEntry(line_range, pattern_name, file, function) ==
  Entry(file, function, line_range, pattern_name, "expect(true).toBeTruthy();",
        "reviewed by hand", "medium")

ShapedEntries ==
  {ShapedEntry(r, "Generic toBeTruthy Fallback", FBlock, "runs") :
     r \in {<<>>, <<2>>, <<2, 2>>, <<2, 2, 2>>, <<9, 9>>}}
    \cup
  {ShapedEntry(<<2>>, "Weak toBeDefined Assertion", FBlock, "runs"),
   ShapedEntry(<<2>>, "Generic toBeTruthy Fallback", "test/unit/load.test.js", "runs"),
   ShapedEntry(<<2>>, "Generic toBeTruthy Fallback", FBlock, "renders")}

CompareInit ==
  /\ \E es \in SeqsUpTo(ShapedEntries, MaxFindings) :
       /\ registry_file = Document(es)
       /\ false_positives = load_false_positives(Document(es))
  /\ lines = <<TestLine, TruthyLine, EndLine>>
  /\ line_index = 1
  /\ directory = Directory(<<FBlock>>)
  /\ pc = "classify"
  /\ line_tolerance = DefaultLineTolerance
  /\ file_index = 1
  /\ detections = <<>>
  /\ all_detections = <<>>
  /\ report = ""
  /\ traceback = FALSE
  /\ exit_status = None
  /\ line = ""
  /\ stripped = NotStripped
  /\ I18nIdle
  /\ UpdateIdle

\* the iteration of  for line_index, line in enumerate(lines)  for the line
\* with the assertion: an exception of is_false_positive is caught nowhere
\* and ends the process with a traceback and the exit status 1
CompareLine ==
  /\ pc = "classify"
  /\ \E found \in {line_matches(anti_patterns, CurrentPath, lines, line_index)} :
       IF is_false_positive_raises(false_positives, line_tolerance, found, lines)
       THEN /\ traceback' = TRUE
            /\ exit_status' = Some(1)
            /\ pc' = "exited"
            /\ UNCHANGED detections
       ELSE /\ detections' = checked_in(false_positives, line_tolerance, found, lines)
            /\ pc' = "classified"
            /\ UNCHANGED <<traceback, exit_status>>
  /\ UNCHANGED <<directory, registry_file, line_tolerance, false_positives,
                 file_index, lines, line_index, all_detections, report, line,
                 stripped>>
  /\ UNCHANGED i18n_vars
  /\ UNCHANGED update_vars

SpecCompare == CompareInit /\ [][CompareLine]_vars

(***************************************************************************)
(* A run of main() of update_translations.py                                *)
(***************************************************************************)
\* how many languages a transaction names
MaxLangs == 2

EnData ==
  ("save" :> Str("Save") @@ "menu" :> Obj(("save" :> Str("Save"))))

LangData ==
  ("save" :> Str("Sichern") @@ "menu" :> Obj(("save" :> Str("Sichern"))))

\* the updates a transaction can hold for a language: a key of the
\* reference, a nested object with a dotted key, a key the reference has
\* not, and a dotted key that leads through a string of the reference
UpdateChoices ==
  {<<<<"save", Str("Speichern")>>>>,
   <<<<"menu", Obj(("save" :> Str("Speichern")))>>, <<"menu.load", Str("Laden")>>>>,
   <<<<"nope", Str("Nein")>>>>,
   <<<<"save.a.x", Str("Nein")>>>>}

\* the transactions: up to MaxLangs different languages, a language the
\* program does not know among them, each with its updates
Transactions ==
  {items \in SeqsUpTo((Languages \cup {"it"}) \X UpdateChoices, MaxLangs) :
     \A i, j \in DOMAIN items : i # j => items[i][1] # items[j][1]}

UpdateInit ==
  /\ \/ transaction = [valid |-> FALSE, items |-> <<>>]
     \/ \E items \in Transactions : transaction = [valid |-> TRUE, items |-> items]
  /\ en_reference \in {Some(EnData), Some(<<>>), None}
  /\ lang_files \in [Languages -> {Some(LangData), Some(<<>>), None}]
  /\ saved = {}
  /\ lang_index = 0
  /\ pc = "update"
  /\ directory = MissingDirectory
  /\ registry_file = Document(<<>>)
  /\ line_tolerance = DefaultLineTolerance
  /\ false_positives = <<>>
  /\ file_index = 1
  /\ lines = <<>>
  /\ line_index = 0
  /\ detections = <<>>
  /\ all_detections = <<>>
  /\ report = ""
  /\ traceback = FALSE
  /\ exit_status = None
  /\ line = ""
  /\ stripped = NotStripped
  /\ I18nIdle

\* main up to "Applying transaction...": the transaction is read, the
\* reference is loaded, the transaction is verified
VerifyTransaction ==
  /\ pc = "update"
  /\ IF ~transaction.valid \/ not_loaded(en_reference)
     THEN pc' = "returned" /\ UNCHANGED <<report, traceback, lang_index>>
     ELSE \E outcome \in {verify_transaction(transaction.items, en_reference[1])} :
            /\ report' = IF outcome = "errors" THEN "Transaction verification failed:"
                         ELSE IF outcome = "ok" THEN "Applying transaction..."
                         ELSE ""
            /\ traceback' = (outcome = "raise")
            /\ pc' = IF outcome = "ok" THEN "applying" ELSE "returned"
            /\ lang_index' = IF outcome = "ok" THEN 1 ELSE lang_index
  /\ UNCHANGED <<directory, registry_file, line_tolerance, false_positives,
                 file_index, lines, line_index, detections, all_detections,
                 exit_status, line, stripped>>
  /\ UNCHANGED <<transaction, en_reference, lang_files, saved>>
  /\ UNCHANGED i18n_vars

\* one iteration of  for lang, updates in transaction.items():
\* update_translation_file(lang, en_data, lang_file, updates)
UpdateTranslationFile ==
  /\ pc = "applying"
  /\ lang_index <= Len(transaction.items)
  /\ \E lang \in {transaction.items[lang_index][1]} :
       IF not_loaded(lang_files[lang])
       THEN UNCHANGED <<lang_files, saved>>
       ELSE /\ lang_files' =
                 [lang_files EXCEPT
                    ![lang] = Some(updated_entries(lang_files[lang][1],
                                                   transaction.items[lang_index][2]))]
            /\ saved' = saved \cup {lang}
  /\ lang_index' = lang_index + 1
  /\ UNCHANGED <<pc, directory, registry_file, line_tolerance, false_positives,
                 file_index, lines, line_index, detections, all_detections,
                 report, traceback, exit_status, line, stripped>>
  /\ UNCHANGED <<transaction, en_reference>>
  /\ UNCHANGED i18n_vars

\* the loop has ended and main returns
UpdateReturn ==
  /\ pc = "applying"
  /\ lang_index > Len(transaction.items)
  /\ pc' = "returned"
  /\ UNCHANGED <<directory, registry_file, line_tolerance, false_positives,
                 file_index, lines, line_index, detections, all_detections,
                 report, traceback, exit_status, line, stripped>>
  /\ UNCHANGED update_vars
  /\ UNCHANGED i18n_vars

SpecUpdate ==
  UpdateInit /\ [][VerifyTransaction \/ UpdateTranslationFile \/ UpdateReturn]_vars

(***************************************************************************)
(* Properties                                                               *)
(***************************************************************************)
\* The variable detections holds what the line scanner has found in the
\* file being scanned, each Detection as is_false_positive left it; the
\* Detections of the whole-file scanner are added to all_detections only.

\* the function is_false_positive finds around a Detection
EnclosingFunction(d) ==
  extract_function_name(ReadLines(d.filename)[1], d.line_number - 1)

\* the four checks of is_false_positive other than the line range
OtherFourChecks(fp, d) ==
  /\ fp.pattern_name = d.pattern_name
  /\ paths_match(d.filename, fp.file)
  /\ fuzzy_match_function(EnclosingFunction(d), fp.function)
  /\ code_matches(fp.pattern_name, fp.code_snippet, d.code_line)

\* the five checks: rule name, file path, enclosing function, line range,
\* code snippet
FiveChecks(fp, d) ==
  /\ OtherFourChecks(fp, d)
  /\ line_in_range(fp.line_range, d.line_number, line_tolerance)

\* a finding that agrees with the Detection exactly
ExactFinding(fp, d) ==
  /\ fp.pattern_name = d.pattern_name
  /\ fp.file = d.filename
  /\ EnclosingFunction(d) = Some(fp.function)
  /\ fp.line_range[1] <= d.line_number
  /\ d.line_number <= fp.line_range[2]
  /\ fp.code_snippet = d.code_line

\* the text holds the reason of the finding and, after it, its confidence
Echoes(text, fp) ==
  \E i \in 1..(Len(text) - Len(fp.reason) + 1) :
    /\ SubSeq(text, i, i + Len(fp.reason) - 1) = fp.reason
    /\ Contains(SubSeq(text, i + Len(fp.reason), Len(text)), fp.confidence)

\* the rule of that name is in the catalogue with high severity
HighSeverity(name) ==
  \E k \in DOMAIN anti_patterns :
    anti_patterns[k].name = name /\ anti_patterns[k].severity = "high"

\* C1: a Detection is suppressed only with the reason and confidence of a
\* registry entry for its own rule name; an entry for another rule name
\* never suppresses it, whatever else of the entry agrees.
C1_RuleNameMandatory ==
  \A n \in DOMAIN detections :
    detections[n].is_false_positive =>
      \E k \in DOMAIN false_positives :
        /\ false_positives[k].pattern_name = detections[n].pattern_name
        /\ detections[n].false_positive_reason # None
        /\ Echoes(detections[n].false_positive_reason[1], false_positives[k])

\* a Detection left unsuppressed by a registry whose only entry agrees with
\* it in file, function, line and snippet and names another rule
C1_OtherRuleNotSuppressed ==
  /\ Len(false_positives) = 1
  /\ \E n \in DOMAIN detections :
       /\ false_positives[1].pattern_name # detections[n].pattern_name
       /\ false_positives[1].file = detections[n].filename
       /\ EnclosingFunction(detections[n]) = Some(false_positives[1].function)
       /\ false_positives[1].line_range = <<detections[n].line_number, detections[n].line_number>>
       /\ false_positives[1].code_snippet = detections[n].code_line
       /\ ~detections[n].is_false_positive

\* C2: with one entry in the registry that passes the four other checks, a
\* Detection at line L is suppressed exactly when
\* start - tolerance <= L <= end + tolerance for the line range
\* [start, end] of the entry.
C2_LineToleranceBoundary ==
  \A n \in DOMAIN detections :
    (Len(false_positives) = 1 /\ OtherFourChecks(false_positives[1], detections[n]))
      => (detections[n].is_false_positive
            <=> /\ false_positives[1].line_range[1] - line_tolerance <= detections[n].line_number
                /\ detections[n].line_number <= false_positives[1].line_range[2] + line_tolerance)

\* a Detection at end + tolerance of a range of two lines, suppressed
C2_AcceptedAtEndPlusTolerance ==
  /\ Len(false_positives) = 1
  /\ line_tolerance >= 1
  /\ \E n \in DOMAIN detections :
       /\ OtherFourChecks(false_positives[1], detections[n])
       /\ false_positives[1].line_range[1] < false_positives[1].line_range[2]
       /\ detections[n].line_number = false_positives[1].line_range[2] + line_tolerance
       /\ detections[n].is_false_positive

\* C3: a Detection of the line scanner for which the registry holds an exact
\* finding is suppressed, and its reason holds the reason and then the
\* confidence of that finding when no earlier entry of the registry passes
\* the five checks.
C3_ExactFindingSuppresses ==
  \A n \in DOMAIN detections : \A k \in DOMAIN false_positives :
    ExactFinding(false_positives[k], detections[n]) =>
      /\ detections[n].is_false_positive
      /\ detections[n].false_positive_reason # None
      /\ (\A j \in 1..(k - 1) : ~FiveChecks(false_positives[j], detections[n]))
           => Echoes(detections[n].false_positive_reason[1], false_positives[k])

\* a Detection suppressed by an exact finding that stands second in the
\* registry, after an entry that does not match
C3_SuppressedBySecondEntry ==
  /\ Len(false_positives) = 2
  /\ \E n \in DOMAIN detections :
       /\ ~FiveChecks(false_positives[1], detections[n])
       /\ ExactFinding(false_positives[2], detections[n])
       /\ detections[n].is_false_positive
       /\ Echoes(detections[n].false_positive_reason[1], false_positives[2])

\* C3 as stated: the reason of a suppressed Detection holds the reason and
\* the confidence of every exact finding in the registry.
C3_EveryExactFindingEchoed ==
  \A n \in DOMAIN detections : \A k \in DOMAIN false_positives :
    ExactFinding(false_positives[k], detections[n]) =>
      /\ detections[n].is_false_positive
      /\ detections[n].false_positive_reason # None
      /\ Echoes(detections[n].false_positive_reason[1], false_positives[k])

\* C4: a Detection of the line scanner is suppressed if and only if some
\* entry of the registry passes the five checks against it.
C4_LineScannerFlagIffMatch ==
  \A n \in DOMAIN detections :
    detections[n].is_false_positive
      <=> \E k \in DOMAIN false_positives : FiveChecks(false_positives[k], detections[n])

\* a Detection suppressed by an entry that is no exact finding: its line
\* range does not hold the line of the Detection
C4_SuppressedWithinTolerance ==
  \E n \in DOMAIN detections :
    /\ detections[n].is_false_positive
    /\ \A k \in DOMAIN false_positives :
         /\ FiveChecks(false_positives[k], detections[n])
         /\ ~ExactFinding(false_positives[k], detections[n])

\* C4 as stated: every Detection the scan of a file returns, those of the
\* whole-file scanner included, is suppressed if and only if some entry of
\* the registry passes the five checks against it.
C4_EveryDetectionFlagIffMatch ==
  \A n \in DOMAIN all_detections :
    all_detections[n].is_false_positive
      <=> \E k \in DOMAIN false_positives :
            FiveChecks(false_positives[k], all_detections[n])

\* C5: when entries of the registry pass the five checks against a
\* Detection of the line scanner, its reason is the reason and confidence
\* of the earliest of them.
C5_EarliestMatchSupplies ==
  \A n \in DOMAIN detections :
    \A k \in DOMAIN false_positives :
      (/\ FiveChecks(false_positives[k], detections[n])
       /\ \A j \in 1..(k - 1) : ~FiveChecks(false_positives[j], detections[n]))
        => detections[n].false_positive_reason
             = Some(false_positives[k].reason \o " (confidence: "
                      \o false_positives[k].confidence \o ")")

\* two entries with different reasons pass the five checks, and the
\* Detection carries the reason of the first
C5_TwoMatchesFirstWins ==
  /\ Len(false_positives) = 2
  /\ false_positives[1].reason # false_positives[2].reason
  /\ \E n \in DOMAIN detections :
       /\ FiveChecks(false_positives[1], detections[n])
       /\ FiveChecks(false_positives[2], detections[n])
       /\ detections[n].false_positive_reason # None
       /\ Echoes(detections[n].false_positive_reason[1], false_positives[1])

\* C6: a run on an existing directory ends with the exit status 1 if some
\* unsuppressed Detection is of a high-severity rule, and with 0 otherwise.
C6_ExitStatusIffHighSeverity ==
  (pc = "exited" /\ directory.exists) =>
    exit_status =
      Some(IF \E n \in DOMAIN all_detections :
                /\ ~all_detections[n].is_false_positive
                /\ HighSeverity(all_detections[n].pattern_name)
           THEN 1 ELSE 0)

\* C7: with an empty registry, the file whose one line is
\* if (window.fooApi) { expect(result).toBeTruthy(); }  yields no
\* Detection, and the file with the same conditional on three lines yields
\* exactly one: the rule "Conditional Test Execution" on line 1, of high
\* severity, not suppressed.
C7_ConditionalOnly ==
  (pc = "exited" /\ false_positives = <<>>) =>
    /\ directory.files = <<FA1>> => all_detections = <<>>
    /\ directory.files = <<FA3>> =>
         /\ Len(all_detections) = 1
         /\ all_detections[1].pattern_name = "Conditional Test Execution"
         /\ all_detections[1].line_number = 1
         /\ HighSeverity(all_detections[1].pattern_name)
         /\ ~all_detections[1].is_false_positive

\* the scan of the file with the conditional on three lines has ended
C7_ThreeLineFormScanned ==
  /\ pc = "exited"
  /\ false_positives = <<>>
  /\ directory.files = <<FA3>>
  /\ Len(all_detections) = 1

\* C7 as stated: the file whose one line is
\* if (window.fooApi) { expect(result).toBeTruthy(); }  yields exactly two
\* Detections, of "Conditional Test Execution" and of "Generic toBeTruthy
\* Fallback", both of high severity and not suppressed.
C7_TwoDetections ==
  (pc = "exited" /\ false_positives = <<>> /\ directory.files = <<FA1>>) =>
    /\ Len(all_detections) = 2
    /\ {all_detections[n].pattern_name : n \in DOMAIN all_detections}
         = {"Conditional Test Execution", "Generic toBeTruthy Fallback"}
    /\ \A n \in DOMAIN all_detections :
         /\ HighSeverity(all_detections[n].pattern_name)
         /\ ~all_detections[n].is_false_positive

\* the line before the Detection declares a test, with it( or with test(
FirstStatementOfTest(d) ==
  /\ d.line_number >= 2
  /\ \E opening \in {"it(", "test("} :
       LET before == Strip(ReadLines(d.filename)[1][d.line_number - 1])
       IN  SubSeq(before, 1, Len(opening)) = opening

\* C8: with an empty registry, the scan returns no Detection of "Weak
\* toBeDefined Assertion" for  expect(window.stoKeybinds).toBeDefined();
\* as the first statement of a test.
C8_FirstStatementLegitimate ==
  false_positives = <<>> =>
    \A n \in DOMAIN all_detections :
      ~(/\ all_detections[n].pattern_name = "Weak toBeDefined Assertion"
        /\ all_detections[n].code_line = "expect(window.stoKeybinds).toBeDefined();"
        /\ FirstStatementOfTest(all_detections[n]))

\* a text without quotes, slashes, stars and backslashes
Plain(s) == \A i \in 1..Len(s) : SubSeq(s, i, i) \notin Alphabet \ {"a"}

\* the character at position i of s is escaped: an odd number of
\* backslashes stands right before it
EscapedAt(s, i) ==
  Cardinality({n \in 1..(i - 1) :
                 \A j \in (i - n)..(i - 1) : SubSeq(s, j, j) = "\\"}) % 2 = 1

\* body is the content of a string literal in the quotes q
LiteralBody(body, q) ==
  /\ \A i \in 1..Len(body) : SubSeq(body, i, i) = q => EscapedAt(body, i)
  /\ ~EscapedAt(body, Len(body) + 1)

\* a string literal opens at position i, after a plain text
OpensLiteral(l, i) ==
  /\ SubSeq(l, i, i) \in QuoteChars
  /\ Plain(SubSeq(l, 1, i - 1))

\* the literal that opens at i closes at j, and its content holds //
ClosesLiteral(l, i, j) ==
  /\ SubSeq(l, j, j) = SubSeq(l, i, i)
  /\ LiteralBody(SubSeq(l, i + 1, j - 1), SubSeq(l, i, i))
  /\ Contains(SubSeq(l, i + 1, j - 1), "//")

\* after the literal that closes at j and a plain text, a line comment
\* starts at k
CommentAfter(l, j, k) ==
  /\ Plain(SubSeq(l, j + 1, k - 1))
  /\ SubSeq(l, k, k + 1) = "//"

\* C9: for a line with a string literal whose content holds // and a line
\* comment after the literal, strip_comments returns the line up to the
\* comment, the literal unchanged.
C9_LiteralKeptCommentRemoved ==
  stripped # NotStripped =>
    \A i \in 1..Len(line) :
      OpensLiteral(line, i) =>
        \A j \in (i + 1)..Len(line) :
          ClosesLiteral(line, i, j) =>
            \A k \in (j + 1)..(Len(line) - 1) :
              CommentAfter(line, j, k) => stripped = SubSeq(line, 1, k - 1)

\* such a line, with a word before the literal, an escaped quote in it, a
\* word after it, and a comment that is not empty
C9_LiteralLineStripped ==
  /\ stripped # NotStripped
  /\ \E i \in 2..Len(line) :
       /\ OpensLiteral(line, i)
       /\ \E j \in (i + 1)..Len(line) :
            /\ ClosesLiteral(line, i, j)
            /\ \E m \in (i + 1)..(j - 1) : SubSeq(line, m, m) = SubSeq(line, i, i)
            /\ \E k \in (j + 2)..(Len(line) - 2) :
                 /\ CommentAfter(line, j, k)
                 /\ stripped = SubSeq(line, 1, k - 1)

\* the line ends inside a block comment it has opened
LeavesCommentOpen(l) == strip_loop(l, strip_start).in_multi_comment

\* C10: no Detection of the line scanner lies on a line after one that
\* leaves a block comment open, before the line that closes the comment.
C10_NoDetectionInsideBlockComment ==
  \A n \in DOMAIN detections :
    \A m \in 1..(detections[n].line_number - 1) :
      ~(/\ LeavesCommentOpen(lines[m])
        /\ \A i \in (m + 1)..detections[n].line_number : ~Contains(lines[i], "*/"))

(***************************************************************************)
(* Properties of the classifiers, of the snippet check and of the scan     *)
(***************************************************************************)
\* the line of the assertion has been scanned
Classified == pc = "classified"

TheAssertion == lines[line_index + 1]

\* the scan of the line has created a Detection of the rule
Found(rule) ==
  \E k \in DOMAIN detections :
    /\ detections[k].pattern_name = rule
    /\ detections[k].line_number = line_index + 1

\* the assertion stands between the header of a conditional and its
\* closing brace
InsideOpenBlock ==
  /\ \E i \in 1..line_index : lines[i] = IfLine
  /\ \E j \in (line_index + 2)..Len(lines) : lines[j] = CloseLine

\* the header of the conditional is one of the n lines before the assertion
HeaderWithin(n) ==
  \E i \in 1..line_index : line_index + 1 - i <= n /\ lines[i] = IfLine

\* the closing brace is one of the n lines after the assertion
ClosedWithin(n) ==
  \E j \in (line_index + 2)..Len(lines) :
    j - (line_index + 1) <= n /\ lines[j] = CloseLine

\* C11: a line that matches the rule of one of the four classifiers with a
\* conditional test and stands in a conditional whose header is one of the
\* 10 lines before it (and, for the definedness rule, whose closing brace is
\* one of the 9 lines after it) always yields a Detection of that rule; the
\* wildcard-matcher rule yields its Detection or not by the matched line
\* alone.
C11_InsideBlockDetected ==
  (Classified /\ InsideOpenBlock) =>
    /\ (/\ RuleOf(TheAssertion) \in {"Weak Instanceof Fallback",
                                     "Weak Object Type Check",
                                     "Function Existence Test"}
        /\ HeaderWithin(10))
         => Found(RuleOf(TheAssertion))
    /\ (/\ RuleOf(TheAssertion) = "Weak toBeDefined Assertion"
        /\ HeaderWithin(10)
        /\ ClosedWithin(9))
         => Found(RuleOf(TheAssertion))
    /\ RuleOf(TheAssertion) = "Generic expect.anything() Overuse"
         => (Found(RuleOf(TheAssertion)) <=> TheAssertion = AnythingLine)

\* an instance-of assertion on a namespaced global, in a conditional whose
\* header stands more than 5 lines before it, has yielded its Detection
C11_DeepInBlockDetected ==
  /\ Classified
  /\ InsideOpenBlock
  /\ TheAssertion = InstanceLine
  /\ HeaderWithin(10)
  /\ ~HeaderWithin(5)
  /\ Found("Weak Instanceof Fallback")

\* C11 as stated: a line that matches one of the five context-sensitive
\* rules and stands inside a conditional that is closed after it yields no
\* Detection of that rule.
C11_InsideBlockNeverDetected ==
  (Classified /\ InsideOpenBlock) => ~Found(RuleOf(TheAssertion))

\* the entry of the registry and the Detection of its rule on the line
TheEntry == false_positives[1]

Suppressed(rule) ==
  \E k \in DOMAIN detections :
    /\ detections[k].pattern_name = rule
    /\ detections[k].line_number = line_index + 1
    /\ detections[k].is_false_positive

\* the snippet of the entry and the code of the line as the check compares
\* them, and their meaningful words
EntryCode == CleanCode(TheEntry.code_snippet)
LineCode == CleanCode(TheAssertion)
SharedWords == Cardinality(KeyWords(EntryCode) \cap KeyWords(LineCode))
AllWords == Cardinality(KeyWords(EntryCode) \cup KeyWords(LineCode))

\* no other way of the snippet check applies: neither text contains the
\* other, and the entry has none of the keyword pairs
FallbackOnly ==
  /\ ~Contains(EntryCode, LineCode)
  /\ ~Contains(LineCode, EntryCode)
  /\ ~(Contains(EntryCode, "typeof") /\ Contains(EntryCode, "object"))
  /\ ~(Contains(EntryCode, "catch") /\ Contains(EntryCode, "error"))
  /\ ~Contains(TheEntry.code_snippet, ").toBeDefined()")

\* C12: when only the fallback of the snippet check applies, the Detection
\* is suppressed exactly when the meaningful words the two snippets share
\* are at least 70% of all their meaningful words: with 7 of 10 it is,
\* with 6 of 10 it is not.
C12_SeventyPercent ==
  (Classified /\ false_positives # <<>> /\ FallbackOnly /\ Found(TheEntry.pattern_name)) =>
    /\ Suppressed(TheEntry.pattern_name) <=> 10 * SharedWords >= 7 * AllWords
    /\ (SharedWords = 7 /\ AllWords = 10) => Suppressed(TheEntry.pattern_name)
    /\ (SharedWords = 6 /\ AllWords = 10) => ~Suppressed(TheEntry.pattern_name)

\* a Detection suppressed by the fallback with 7 shared words of 10
C12_SevenOfTenSuppressed ==
  /\ Classified
  /\ false_positives # <<>>
  /\ FallbackOnly
  /\ SharedWords = 7
  /\ AllWords = 10
  /\ Suppressed(TheEntry.pattern_name)

\* a Detection left unsuppressed by the fallback with 6 shared words of 10
C12_SixOfTenKept ==
  /\ Classified
  /\ false_positives # <<>>
  /\ FallbackOnly
  /\ SharedWords = 6
  /\ AllWords = 10
  /\ Found(TheEntry.pattern_name)
  /\ ~Suppressed(TheEntry.pattern_name)

\* the rule names of the whole-file scanner
MultilineNames == {multiline_patterns[k].name : k \in DOMAIN multiline_patterns}

\* C13: every Detection of the whole-file scanner is handed to the report
\* unsuppressed and without a reason, whatever the registry holds.
C13_MultilineNeverSuppressed ==
  \A n \in DOMAIN all_detections :
    all_detections[n].pattern_name \in MultilineNames =>
      /\ ~all_detections[n].is_false_positive
      /\ all_detections[n].false_positive_reason = None

\* the report has been printed for a run whose registry holds an entry
\* that passes the five checks against a Detection of the whole-file
\* scanner, and that Detection is unsuppressed
C13_MatchingEntryIgnored ==
  /\ pc \in {"printed", "exited"}
  /\ \E n \in DOMAIN all_detections :
       /\ all_detections[n].pattern_name \in MultilineNames
       /\ ~all_detections[n].is_false_positive
       /\ \E k \in DOMAIN false_positives :
            FiveChecks(false_positives[k], all_detections[n])

\* the names print_detections and main look up: those of the unsuppressed
\* Detections of a finished scan
LookedUp ==
  IF pc \in {"printed", "exited"} /\ directory.exists
  THEN {all_detections[n].pattern_name :
          n \in {m \in DOMAIN all_detections : ~all_detections[m].is_false_positive}}
  ELSE {}

Registered(name) == \E k \in DOMAIN anti_patterns : anti_patterns[k].name = name

\* the failure the lookup is to end with for a name without a rule
NotFound == <<"NotFound">>

\* C14 as stated: the lookup of a name returns the rule of that name when
\* one is registered and fails with NotFound when none is.
C14_LookupFailsWhenAbsent ==
  \A name \in LookedUp :
    IF Registered(name)
    THEN /\ get_pattern_by_name(name) # None
         /\ get_pattern_by_name(name)[1].name = name
    ELSE get_pattern_by_name(name) = NotFound

\* scan_directory has returned
ScanDone ==
  /\ directory.exists
  /\ \/ pc = "walk" /\ file_index > Len(directory.files)
     \/ pc \in {"printed", "exited"}

\* the rule and line of each Detection of a sequence
Keys(found) ==
  [k \in 1..Len(found) |-> <<found[k].line_number, found[k].pattern_name>>]

\* the Detections the scan has returned for a file
ReturnedFor(path) == SelectSeq(all_detections, LAMBDA d : d.filename = path)

\* what the two scanners find in the lines i, i + 1, ... of a readable file
\* and in the file as a whole
RECURSIVE FoundFrom(_, _)
FoundFrom(path, i) ==
  IF i >= Len(FileAt(path).lines) THEN MultilineMatchesOf(path)
  ELSE LineMatchesOf(path, i) \o FoundFrom(path, i + 1)

Unreadable(path) == ReadLines(path) = None

\* C15: a file that cannot be read contributes no Detection, and every
\* other file of the walk whose name is that of a test file contributes
\* all the Detections the scanners find in it.
C15_UnreadableFileSkipped ==
  ScanDone =>
    \A i \in DOMAIN directory.files :
      LET path == directory.files[i]
      IN  IF Unreadable(path) \/ ~ReMatch(file_pattern, BaseName(path))
          THEN ReturnedFor(path) = <<>>
          ELSE Keys(ReturnedFor(path)) = Keys(FoundFrom(path, 0))

\* a scan that met the unreadable file first has returned the Detections
\* of the file after it
C15_ScannedAfterFailure ==
  /\ ScanDone
  /\ Len(directory.files) = 2
  /\ Unreadable(directory.files[1])
  /\ ReturnedFor(directory.files[2]) # <<>>

\* the registry file is missing, is not JSON, or holds an entry without one
\* of the required keys
RegistryBroken ==
  \/ registry_file.state \in {"absent", "unparsable"}
  \/ \E k \in DOMAIN registry_file.false_positives :
       ~(RequiredFields \subseteq DOMAIN registry_file.false_positives[k])

\* C16: with a registry file that is missing, is not JSON or holds an
\* entry without a required key, the detector is constructed with an empty
\* registry, and no Detection of the scan is suppressed.
C16_BrokenRegistryIsEmpty ==
  RegistryBroken =>
    /\ false_positives = <<>>
    /\ pc = "constructed" => ~traceback /\ exit_status = None
    /\ \A n \in DOMAIN detections : ~detections[n].is_false_positive
    /\ \A n \in DOMAIN all_detections : ~all_detections[n].is_false_positive

\* a scan has ended with an unsuppressed Detection for which the registry
\* file holds an entry that agrees with it exactly, next to an entry
\* without a required key
C16_SoundEntryDropped ==
  /\ ScanDone
  /\ RegistryBroken
  /\ \E n \in DOMAIN all_detections :
       /\ ~all_detections[n].is_false_positive
       /\ \E k \in DOMAIN registry_file.false_positives :
            /\ RequiredFields \subseteq DOMAIN registry_file.false_positives[k]
            /\ ExactFinding(registry_file.false_positives[k], all_detections[n])

\* the paths of the files in ascending order
SortedPaths == <<FA1, FA3, FBit, FBtest, FC, FH, FU, FW, FT, FS>>

Rank(path) == CHOOSE k \in DOMAIN SortedPaths : SortedPaths[k] = path

\* C17 as stated: the Detections handed to the report are ordered by file
\* path and, within one file, by line number.
C17_OrderedByPathAndLine ==
  ScanDone =>
    \A i, j \in DOMAIN all_detections :
      i < j =>
        \/ Rank(all_detections[i].filename) < Rank(all_detections[j].filename)
        \/ /\ all_detections[i].filename = all_detections[j].filename
           /\ all_detections[i].line_number <= all_detections[j].line_number

\* the scan of one file has returned a Detection of the whole-file scanner
\* after a Detection of a later line
C17_EarlierLineLater ==
  /\ ScanDone
  /\ Len(directory.files) = 1
  /\ \E i, j \in DOMAIN all_detections :
       /\ i < j
       /\ all_detections[i].line_number > all_detections[j].line_number

\* the last component of a dotted name
LastComponent(target) == LastOf(Split(target, "."))

\* C18 as stated: when the snippet of the entry and the code of the line
\* are both definedness assertions, the snippet check accepts them whenever
\* one target contains the other or the two targets end in the same dotted
\* component, so the Detection is suppressed.
C18_TargetsMatch ==
  \A t, u \in Targets :
    (/\ Classified
     /\ false_positives # <<>>
     /\ TheEntry.code_snippet = DefinedOf(t)
     /\ Strip(TheAssertion) = DefinedOf(u) \o ";"
     /\ \/ Contains(t, u)
        \/ Contains(u, t)
        \/ LastComponent(t) = LastComponent(u))
      => Suppressed("Weak toBeDefined Assertion")

\* C20 as stated: a definedness assertion inside a conditional that is
\* opened on one of the 10 lines before it and closed only after it is
\* reported as not legitimate, so its Detection is created, even when a
\* later condition of the classifier holds.
C20_ConditionalTestFirst ==
  (/\ Classified
   /\ RuleOf(TheAssertion) = "Weak toBeDefined Assertion"
   /\ InsideOpenBlock
   /\ HeaderWithin(10))
    => Found("Weak toBeDefined Assertion")

\* what check_duplicates returned and printed in this run
Outcome == [return_code |-> return_code[1], reported |-> reported]

\* C19: the result of check_duplicates(i18n_dir, case_sensitive) depends only
\* on the content of <i18n_dir>/en.json and on case_sensitive: whatever
\* en.json any other directory holds, the return code and the duplicates
\* reported are the same.
C19_OnlyGivenDirectory ==
  return_code # None =>
    \A d \in I18nDirs \ {i18n_dir} : \A other \in EnFiles :
      check_duplicates(i18n_dir, case_sensitive,
                       [en_files EXCEPT ![d] = other]) = Outcome

\* a run on a directory whose en.json has no duplicate key reports the
\* duplicates of the en.json of src/i18n
C19_ForeignDuplicatesReported ==
  /\ return_code = Some(1)
  /\ i18n_dir = OtherDir
  /\ en_files[OtherDir] = EnPlain
  /\ en_files[FixedDir] = EnTwice
  /\ reported # <<>>

\* the file with the header and the closing brace of its conditionals
\* replaced by plain statements
Unconditional(file_lines) ==
  [k \in DOMAIN file_lines |->
     IF file_lines[k] \in {IfLine, CloseLine} THEN StepLine ELSE file_lines[k]]

\* what the scan of line_index makes of a file
ScanOf(file_lines) ==
  checked_in(false_positives, line_tolerance,
             line_matches(anti_patterns, CurrentPath, file_lines, line_index),
             file_lines)

\* a conditional is opened on one of the 10 lines before the assertion and
\* closed on a line before the assertion
ClosedBefore ==
  \E i \in 1..line_index : \E j \in (i + 1)..line_index :
    /\ lines[i] = IfLine
    /\ lines[j] = CloseLine
    /\ line_index + 1 - i <= 10

\* C21: for the weak-definedness classifier the brace counting stops at the
\* first closing point of the conditional: a conditional opened within the
\* 10 lines before the assertion and closed before it leaves the answer what
\* it is without the conditional, whatever closing braces follow the
\* assertion.
C21_ClosedBlockIgnored ==
  (/\ Classified
   /\ RuleOf(TheAssertion) = "Weak toBeDefined Assertion"
   /\ ClosedBefore)
    => detections = ScanOf(Unconditional(lines))

\* C22: the instance-of, object-type and function-existence classifiers
\* answer false on account of a conditional only when the assertion stands
\* inside it: a conditional opened within the 10 lines before the assertion
\* and closed before it leaves their answer what it is without the
\* conditional.
C22_ClosedBlockIgnoredByOthers ==
  (/\ Classified
   /\ WindowRuleOf(TheAssertion) \in {"Weak Instanceof Fallback",
                                      "Weak Object Type Check",
                                      "Function Existence Test"}
   /\ ClosedBefore)
    => detections = ScanOf(Unconditional(lines))

\* the last line the look-ahead window of an assertion is claimed to reach
ClaimedReach(assertion) ==
  IF assertion = WindowLine THEN 10
  ELSE IF assertion = ResultLine THEN 5
  ELSE 8

\* the follow-up line of the assertion stands on the k-th line after it
FollowUpAt(k) ==
  /\ line_index = 1
  /\ lines[1] = TestLine
  /\ line_index + 1 + k <= Len(lines)
  /\ \E p \in FollowUps : TheAssertion = p[1] /\ lines[line_index + 1 + k] = p[2]

\* C23: the look-ahead windows include their last line: an assertion that
\* only its follow-up line can legitimise yields no Detection when the
\* follow-up stands on one of the next 10 lines (8 for the manager usage and
\* the function invocation, 5 for the property assertion), and yields one
\* when it stands one line further.
C23_WindowIncludesLastLine ==
  Classified =>
    \A k \in 1..MaxAhead :
      FollowUpAt(k) =>
        /\ k <= ClaimedReach(TheAssertion) => ~Found(WindowRuleOf(TheAssertion))
        /\ k = ClaimedReach(TheAssertion) + 1 => Found(WindowRuleOf(TheAssertion))

\* the line is A, a block comment from position i to position j + 1, and B,
\* A and B being plain and the body of the comment not holding */
BlockCommentAt(l, i, j) ==
  /\ i + 2 <= j
  /\ j + 1 <= Len(l)
  /\ SubSeq(l, i, i + 1) = "/*"
  /\ SubSeq(l, j, j + 1) = "*/"
  /\ ~Contains(SubSeq(l, i + 2, j - 1), "*/")
  /\ Plain(SubSeq(l, 1, i - 1))
  /\ Plain(SubSeq(l, j + 2, Len(l)))

\* C24: for a line A /* C */ B with plain A and B and no */ in C,
\* strip_comments returns A followed by B, whatever characters C holds.
C24_CodeAfterBlockCommentKept ==
  stripped # NotStripped =>
    \A i \in 1..Len(line) : \A j \in 1..Len(line) :
      BlockCommentAt(line, i, j) =>
        stripped = SubSeq(line, 1, i - 1) \o SubSeq(line, j + 2, Len(line))

\* the names of the entry and of the test are built from the counts t
NamesFrom(t) ==
  /\ lines[1] = TestHeader(TestName(t))
  /\ \E pool \in {WordPool, WordPoolCaps} : TheEntry.function = RecordedName(pool, t)

\* C25: fuzzy_match_function accepts two non-empty names when they are equal,
\* equal ignoring case or one contains the other ignoring case; otherwise it
\* accepts exactly when at least 60% of the words of the recorded name occur
\* among the words of the name of the enclosing test.
C25_SixtyPercentOfRecordedName ==
  Classified =>
    \A t \in NameCounts :
      NamesFrom(t) =>
        (Suppressed("Generic toBeTruthy Fallback")
           <=> \/ t[2] = 0
               \/ t[3] = 0
               \/ 10 * t[1] >= 6 * (t[1] + t[2]))

\* a recorded name of five words, three of them among the four words of the
\* name of the test, neither name containing the other: suppressed
C25_ThreeOfFiveAccepted ==
  /\ Classified
  /\ NamesFrom(<<3, 2, 1>>)
  /\ Suppressed("Generic toBeTruthy Fallback")

\* C26: every Detection of a scan carries the name of a registered rule, and
\* print_detections and the computation of the exit status end without
\* raising.
C26_EveryDetectionRegistered ==
  /\ \A n \in DOMAIN all_detections : Registered(all_detections[n].pattern_name)
  /\ ~traceback

\* add_false_positive has written its entry to the registry file
Written == pc = "added" /\ report # "" /\ report # "Error saving false positive"

\* C27: after add_false_positive has written to the registry file, a load
\* of the file returns every finding the detector had loaded from it at its
\* construction, and the registry of the running detector is what it was.
C27_AddKeepsLoadableFindings ==
  Written =>
    \A k \in DOMAIN false_positives :
      \E m \in DOMAIN load_false_positives(registry_file) :
        load_false_positives(registry_file)[m] = false_positives[k]

\* no header of a test, a suite or a setup block stands on the line of the
\* assertion or on one of the 19 lines above it
NoHeaderNear ==
  \A i \in 1..(line_index + 1) :
    line_index + 1 - i <= 19 => lines[i] \notin HeaderLines

\* the entry of the registry agrees with the Detection of the assertion on
\* rule, file, line and snippet
EntryAgrees ==
  /\ Len(false_positives) = 1
  /\ TheEntry.pattern_name = "Generic toBeTruthy Fallback"
  /\ TheEntry.file = FBlock
  /\ TheEntry.line_range = <<line_index + 1, line_index + 1>>
  /\ TheEntry.code_snippet = Strip(TheAssertion)

\* C28: a Detection without a header on its line or the 19 lines above it,
\* or whose file cannot be read again, is never suppressed, whatever the
\* registry holds.
C28_NoContextNeverSuppressed ==
  (Classified /\ (NoHeaderNear \/ ~directory.readable)) =>
    \A k \in DOMAIN detections : ~detections[k].is_false_positive

\* the header of the test stands 20 lines above the assertion, the entry
\* agrees with the Detection and names the test, the file is read again:
\* the Detection is there and is not suppressed
C28_HeaderTwentyAboveKept ==
  /\ Classified
  /\ directory.readable
  /\ line_index = 20
  /\ lines[1] = TestLine
  /\ EntryAgrees
  /\ TheEntry.function = "runs"
  /\ Found("Generic toBeTruthy Fallback")
  /\ ~Suppressed("Generic toBeTruthy Fallback")

\* C29: the comparison of a Detection with the entries loaded never raises
\* and never ends the scan: after the line is scanned its Detection is
\* there, and an entry that cannot match is passed over.
C29_ComparisonNeverRaises ==
  pc # "classify" =>
    /\ ~traceback
    /\ pc = "classified"
    /\ Found("Generic toBeTruthy Fallback")

\* the languages the transaction names
Named == {transaction.items[n][1] : n \in DOMAIN transaction.items}

\* C30: after main of update_translations has returned, either the file of
\* every language the transaction names has been updated or no file has
\* been written; a transaction that is rejected writes no file.
C30_AllOrNothing ==
  pc = "returned" =>
    /\ saved = {} \/ saved = Named
    /\ report # "Applying transaction..." => saved = {}
====
